---- MODULE Spec2Model ----
(***************************************************************************)
(* Verification model of the z-stack analyzer (srieg/zstack-analyzer).     *)
(*                                                                         *)
(* Spec        the analysis orchestrator ZStackAnalyzer.analyze and the    *)
(*             seven algorithm functions it dispatches to                  *)
(*             (src/core/processing/analyzer.py), together with a direct   *)
(*             call of colocalization_analysis (src/core/gpu/analysis.py). *)
(* SpecDevice  the DeviceManager singleton and its device detection        *)
(*             (src/core/gpu/device_manager.py).                           *)
(* SpecKernels direct calls of the compute kernels                         *)
(*             (src/core/gpu/kernels.py, deconvolution.py, analysis.py,    *)
(*             segmentation.py).                                           *)
(* SpecFunctions direct calls of the image loader and of the helpers of    *)
(*             the kernels (src/core/processing/image_loader.py).          *)
(* SpecManager the WebSocket ConnectionManager and its coroutines          *)
(*             (src/api/websocket/manager.py).                             *)
(* SpecRun     one analysis request and its background run                 *)
(*             (src/api/routes/analysis.py).                               *)
(*                                                                         *)
(* Progress values are kept as integers in hundredths of a percent point:  *)
(* the source's 5.0 is 500, 100.0 is 10000.  Confidence scores are kept in *)
(* hundredths too: the source's 0.85 is 85.                                *)
(***************************************************************************)
EXTENDS Integers, Sequences, FiniteSets, TLC

VARIABLES
    \* --- one analyze call, or one direct colocalization_analysis call ---
    pc,           \* [fn, ip]: the function being executed and its next step
    algorithm,    \* the algorithm id passed to analyze
    parameters,   \* the parameter mapping passed to analyze
    data,         \* what load_image yielded: [ndim, shape0]
    hasSink,      \* TRUE iff ZStackAnalyzer was given a progress_callback
    events,       \* progress events delivered to the sink, in order
    sinkRaised,   \* TRUE once the sink has raised
    loads,        \* number of load_image calls
    funcCalls,    \* number of times the algorithm function was invoked
    kernels,      \* kernel functions entered, in order: [name, computed]
    results,      \* <<>> or <<the result mapping of the function that returned>>
    outcome,      \* how the call ended: [kind, exc, envelope]
    thrown,       \* where an exception arose, and which: [fn, exc]
    coloc,        \* arguments of a direct colocalization_analysis call
    computed,     \* metrics colocalization_analysis has computed so far
    \* --- the DeviceManager class, its instances and its callers ---
    tpc,          \* per thread: [op, self], its place in DeviceManager()
    objs,         \* the DeviceManager objects created, by id 1..Len(objs)
    cls_instance, \* DeviceManager._instance: an object id, or 0 for None
    DeviceDEFAULT,\* tinygrad's Device.DEFAULT
    constructions,\* number of DeviceManager() calls started
    handles,      \* object ids the finished DeviceManager() calls returned
    detections,   \* number of _detect_device runs started
    probed,       \* outcome of each probe of the latest detection
    reported,     \* the (device, device_info) values the properties returned
    held,         \* the dict a caller got from device_info: [value, alias]
    \* --- one direct call of a kernel or analysis function ---
    call,         \* the function called and its arguments
    ret,          \* what the call returned or raised
    \* --- the ConnectionManager, its coroutines and its websockets ---
    active_connections,  \* the client ids that are keys of active_connections
    sessions,            \* session id -> set of client ids
    connection_metadata, \* client id -> [session_id, message_count]
    heartbeat_tasks,     \* client id -> state of the client's heartbeat task
    uuids,               \* number of client ids generated so far
    ops,                 \* the coroutines started, by number: see NewOp
    inbox,               \* per websocket, the events sent on it, in order
    \* --- one image stack and one run_analysis on it ---
    run,                 \* [pc, ...]: the place of the run and its locals
    processing_status,   \* ImageStack.processing_status as committed
    emitted              \* the events run_analysis handed to the manager

analyzerVars == <<pc, algorithm, parameters, data, hasSink, events, sinkRaised,
                  loads, funcCalls, kernels, results, outcome, thrown, coloc,
                  computed>>

deviceVars == <<tpc, objs, cls_instance, DeviceDEFAULT, constructions, handles,
                detections, probed, reported, held>>

kernelVars == <<call, ret>>

managerVars == <<active_connections, sessions, connection_metadata, heartbeat_tasks,
                 uuids, ops, inbox>>

runVars == <<run, processing_status, emitted>>

apiVars == <<managerVars, runVars>>

vars == <<analyzerVars, deviceVars, kernelVars, apiVars>>

-----------------------------------------------------------------------------
(* Bounds of the model *)

\* Largest number of channels (data.shape[0]) load_image may yield.
MaxChannels == 3

\* Number of threads that construct and read the DeviceManager.
MaxThreads == 2

\* Largest number of DeviceManager() calls a behaviour of SpecDevice or
\* SpecDeviceConcurrent makes.
MaxConstructions == 3

\* Largest number of voxels of a volume handed to otsu_threshold.
MaxVoxels == 4

\* Largest voxel intensity of a volume handed to otsu_threshold.
MaxIntensity == 2

\* Largest min_size (min_object_size) handed to a labeling function.
MaxMinSize == 3

\* Largest side of a volume handed to sobel_3d or gaussian_blur_3d.
MaxSide == 4

\* Largest number of Richardson-Lucy iterations.
MaxIterations == 2

\* Largest label of a labeled volume handed to an analysis function.
MaxLabel == 2

-----------------------------------------------------------------------------
(* Values *)

NoExc == [type |-> "none", msg |-> "", origin |-> ""]

Exc(t, m, o) == [type |-> t, msg |-> m, origin |-> o]

Ok == [raised |-> FALSE, exc |-> NoExc]

Raised(e) == [raised |-> TRUE, exc |-> e]

None == "<None>"         \* Python's None

\* parameters.get(key, default): the mapping is a function on the keys present
Get(p, key, default) == IF key \in DOMAIN p THEN p[key] ELSE default

\* Python truthiness of the parameter values used here
Truthy(v) == v \notin {"False", None}

\* dict.get(key) on a result mapping
DictGet(d, key) == IF key \in DOMAIN d THEN d[key] ELSE None

EmptyDict == [k \in {} |-> None]

-----------------------------------------------------------------------------
(* Inputs *)

\* The ids analyze may be called with: the registered ones and two others.
AlgorithmIds ==
    {"segmentation_3d", "colocalization", "intensity_analysis", "deconvolution",
     "blob_detection", "object_measurements", "z_profile",
     "classification", "Segmentation_3D"}

\* One optional key of the parameter mapping: absent, or one of the values.
Opt(key, values) == {EmptyDict} \cup {[k \in {key} |-> v] : v \in values}

\* The parameter mappings tried for each algorithm id (the keys the algorithm
\* function reads and that decide its control flow).
ParametersFor(alg) ==
    CASE alg = "segmentation_3d" ->
            {m @@ s : m \in Opt("method", {"threshold", "watershed", "otsu"}),
                      s \in Opt("smooth", {"True", "False"})}
      [] alg = "deconvolution" ->
            {m @@ t : m \in Opt("method", {"richardson_lucy", "wiener", "lucy"}),
                      t \in Opt("psf_type", {"gaussian", "airy", "gibson-lanni",
                                             "lorentzian"})}
      [] alg = "colocalization" -> Opt("channel2", {2})
      [] alg \in {"object_measurements", "z_profile", "intensity_analysis"} ->
            Opt("labels", {"label volume", None})
      [] OTHER -> {EmptyDict}

\* What load_image may yield: a volume with 3 or 4 axes and shape[0] planes
\* or channels.
Volumes == [ndim : {3, 4}, shape0 : 1..MaxChannels]

NoData == [ndim |-> 0, shape0 |-> 0]


-----------------------------------------------------------------------------
(* Steps of a coroutine body.  A body is the sequence of its steps, built  *)
(* from the source's statements; the conditions of the source that depend  *)
(* only on the arguments are decided when the sequence is built.           *)

EmitStep(progress, step) == [op |-> "emit", progress |-> progress, step |-> step]

\* await loop.run_in_executor(None, <name>, ..., <cb>)
KernelStep(name, cb) == [op |-> "kernel", name |-> name, cb |-> cb]

RaiseStep(e) == [op |-> "raise", exc |-> e]

ReturnStep(r) == [op |-> "return", results |-> r]

\* The progress closures the algorithm functions hand to the kernels:
\*   def smooth_progress(prog):
\*       asyncio.create_task(self._emit_progress(base + prog * span, step, None))
Closure(base, span, step) ==
    [kind |-> "closure", base |-> base, span |-> span, step |-> step]

NoCallback == [kind |-> "none", base |-> 0, span |-> 0, step |-> ""]


-----------------------------------------------------------------------------
(* The seven algorithm functions of ZStackAnalyzer (analyzer.py:90-476).   *)

\* The result mapping an algorithm function returns: its keys, with the
\* confidence score and the keys of parameters_used as values.
ResultMapping(keys, score, used) ==
    [k \in keys \cup {"confidence_score", "parameters_used"} |->
        IF k = "confidence_score" THEN score
        ELSE IF k = "parameters_used" THEN used
        ELSE "value"]

_run_segmentation_3d(d, p) ==
    LET method == Get(p, "method", "threshold")
    IN  <<EmitStep(2000, "Preprocessing volume data")>>
        \o (IF Truthy(Get(p, "smooth", "True"))
            THEN <<KernelStep("gaussian_blur_3d",
                              Closure(2000, 15, "Smoothing volume"))>>
            ELSE <<>>)
        \o <<EmitStep(3500, "Running segmentation algorithm")>>
        \o (IF method = "threshold"
            THEN <<KernelStep("threshold_segmentation",
                              Closure(3500, 30, "Threshold segmentation"))>>
            ELSE IF method = "watershed"
            THEN <<KernelStep("watershed_segmentation_3d",
                              Closure(3500, 30, "Watershed segmentation"))>>
            ELSE <<RaiseStep(Exc("ValueError", "Unknown segmentation method",
                                 "_run_segmentation_3d"))>>)
        \o <<EmitStep(7000, "Computing object metrics"),
             EmitStep(8500, "Finalizing segmentation"),
             ReturnStep(ResultMapping(
                 {"num_objects", "object_volumes", "total_volume", "mean_volume"},
                 85, {"method", "threshold", "min_object_size"}))>>

_run_colocalization(d, p) ==
    LET channel1_idx == Get(p, "channel1", 0)
        channel2_idx == Get(p, "channel2", 1)
        InRange(i) == i < d.shape0 /\ i >= -d.shape0
    IN  IF d.ndim < 4 \/ d.shape0 < 2
        THEN <<RaiseStep(Exc("ValueError",
                             "Colocalization requires at least 2 channels",
                             "_run_colocalization"))>>
        ELSE <<EmitStep(2000, "Extracting channels")>>
             \o (IF InRange(channel1_idx) /\ InRange(channel2_idx)
                 THEN <<>>
                 ELSE <<RaiseStep(Exc("IndexError", "index out of bounds",
                                      "_run_colocalization"))>>)
             \o <<EmitStep(4000, "Computing colocalization metrics"),
                  KernelStep("colocalization_analysis",
                             Closure(4000, 45, "Analyzing colocalization")),
                  EmitStep(9000, "Finalizing colocalization analysis"),
                  ReturnStep(ResultMapping(
                      {"pearson_r", "manders_m1", "manders_m2",
                       "overlap_coefficient", "threshold_ch1", "threshold_ch2"},
                      90, {"channel1", "channel2"}))>>

_run_intensity_analysis(d, p) ==
    LET labels == Get(p, "labels", None)
    IN  <<EmitStep(2000, "Computing intensity statistics"),
          KernelStep("intensity_statistics",
                     Closure(2000, 70, "Analyzing intensities")),
          EmitStep(9500, "Finalizing intensity analysis"),
          ReturnStep(ResultMapping(
              IF labels = None
              THEN {"mean", "std", "min", "max", "median", "total_intensity",
                    "dynamic_range", "signal_to_noise"}
              ELSE {"num_objects", "object_statistics", "global_mean",
                    "global_std"},
              95, {"roi_coords", "per_object"}))>>

_run_deconvolution(d, p) ==
    LET method == Get(p, "method", "richardson_lucy")
    IN  <<EmitStep(1500, "Generating PSF"),
          KernelStep("generate_psf", NoCallback),
          EmitStep(2500, "Running " \o method \o " deconvolution")>>
        \o (IF method = "richardson_lucy"
            THEN <<KernelStep("richardson_lucy_deconvolution",
                              Closure(2500, 65, method \o " iteration"))>>
            ELSE IF method = "wiener"
            THEN <<KernelStep("wiener_deconvolution",
                              Closure(2500, 65, method \o " iteration"))>>
            ELSE <<RaiseStep(Exc("ValueError", "Unknown deconvolution method",
                                 "_run_deconvolution"))>>)
        \o <<EmitStep(9200, "Computing improvement metrics"),
             ReturnStep(ResultMapping(
                 {"improvement_ratio", "iterations_used", "method", "psf_type",
                  "convergence_achieved"},
                 80, {"method", "iterations", "psf_type"}))>>

_run_blob_detection(d, p) ==
    <<EmitStep(2000, "Detecting blobs across scales"),
      KernelStep("blob_detection_3d", Closure(2000, 70, "Blob detection")),
      EmitStep(9500, "Finalizing blob detection"),
      ReturnStep(ResultMapping({"num_blobs", "blobs"}, 88,
                               {"min_sigma", "max_sigma", "threshold"}))>>

\* _run_object_measurements checking `labels` after its first progress stage
_run_object_measurements_late_check(d, p) ==
    <<EmitStep(2000, "Computing object measurements")>>
    \o (IF Get(p, "labels", None) = None
        THEN <<RaiseStep(Exc("ValueError",
                             "object_measurements requires 'labels' parameter",
                             "_run_object_measurements"))>>
        ELSE <<KernelStep("object_measurements",
                          Closure(2000, 75, "Measuring objects")),
               EmitStep(9700, "Finalizing measurements"),
               ReturnStep(ResultMapping({"num_objects", "measurements"}, 92,
                                        {"voxel_size", "compute_surface"}))>>)

_run_object_measurements(d, p) ==
    LET labels == Get(p, "labels", None)
    IN  IF labels = None
        THEN <<RaiseStep(Exc("ValueError",
                             "object_measurements requires 'labels' parameter",
                             "_run_object_measurements"))>>
        ELSE <<EmitStep(2000, "Computing object measurements"),
               KernelStep("object_measurements",
                          Closure(2000, 75, "Measuring objects")),
               EmitStep(9700, "Finalizing measurements"),
               ReturnStep(ResultMapping({"num_objects", "measurements"}, 92,
                                        {"voxel_size", "compute_surface"}))>>

_run_z_profile(d, p) ==
    <<EmitStep(2000, "Analyzing Z-profiles"),
      KernelStep("z_profile_analysis", Closure(2000, 75, "Computing profiles")),
      EmitStep(9700, "Finalizing Z-profile analysis"),
      ReturnStep(ResultMapping(
          {"z_depth", "global_profile"}
              \cup (IF Get(p, "labels", None) = None THEN {}
                    ELSE {"object_profiles"}),
          93, {"per_object"}))>>

\* self.available_algorithms: the registered ids (analyzer.py:31-39)
available_algorithms ==
    {"segmentation_3d", "colocalization", "intensity_analysis", "deconvolution",
     "blob_detection", "object_measurements", "z_profile"}

\* The body of the function registered under an id
AlgorithmBody(alg, d, p) ==
    CASE alg = "segmentation_3d" -> _run_segmentation_3d(d, p)
      [] alg = "colocalization" -> _run_colocalization(d, p)
      [] alg = "intensity_analysis" -> _run_intensity_analysis(d, p)
      [] alg = "deconvolution" -> _run_deconvolution(d, p)
      [] alg = "blob_detection" -> _run_blob_detection(d, p)
      [] alg = "object_measurements" -> _run_object_measurements(d, p)
      [] alg = "z_profile" -> _run_z_profile(d, p)

\* The statements of analyze inside its try block (analyzer.py:59-84)
analyze_body ==
    <<EmitStep(500, "Loading image data"),
      [op |-> "load"],
      EmitStep(1500, "Image loaded, initializing analysis"),
      [op |-> "call"],
      EmitStep(9500, "Finalizing results"),
      EmitStep(10000, "Analysis complete"),
      [op |-> "envelope"]>>


-----------------------------------------------------------------------------
(* Kernels as the orchestrator sees them *)

\* asyncio.create_task(coro), called by a progress closure.  The closures
\* run inside the kernel, which run_in_executor runs on a worker thread of
\* the default executor: no event loop is running in that thread, and
\* create_task raises RuntimeError before it schedules anything.
create_task ==
    Raised(Exc("RuntimeError", "no running event loop", "asyncio.create_task"))

\* `if progress_callback: progress_callback(prog)`, the first statement of
\* every kernel (kernels.py:90-91, segmentation.py:53-54,146-147,300-301,
\* analysis.py:54-55,195-196,271-272,395-396, deconvolution.py:54-55,145-146,
\* 270-271).  A plain callback is a synchronous function of the caller, which
\* raises iff sinkFails.
progress_callback(cb, prog, sinkFails) ==
    CASE cb.kind = "none" -> Ok
      [] cb.kind = "closure" -> create_task
      [] cb.kind = "plain" ->
            IF sinkFails
            THEN Raised(Exc("SinkError", "progress sink failed", "progress_callback"))
            ELSE Ok

\* generate_psf(shape, psf_type, ..., progress_callback=None)
\* (deconvolution.py:270-296)
generate_psf(psf_type) ==
    IF psf_type \in {"gaussian", "airy", "gibson-lanni"}
    THEN [raised |-> FALSE, exc |-> NoExc, computed |-> TRUE]
    ELSE [raised |-> TRUE, exc |-> Exc("ValueError", "Unknown PSF type", "generate_psf"),
          computed |-> FALSE]

\* await loop.run_in_executor(None, kernel, ..., cb): the kernel's outcome.
\* `computed` tells whether the kernel got to compute anything.  Every kernel
\* reports progress 0.0 first; of the kernels the analyzer runs, generate_psf
\* alone is given no callback.
run_in_executor(name, cb, p) ==
    LET first == progress_callback(cb, 0, FALSE)
    IN  IF first.raised
        THEN [raised |-> TRUE, exc |-> first.exc, computed |-> FALSE]
        ELSE IF name = "generate_psf"
        THEN generate_psf(Get(p, "psf_type", "gaussian"))
        ELSE [raised |-> FALSE, exc |-> NoExc, computed |-> TRUE]

-----------------------------------------------------------------------------
(* colocalization_analysis (analysis.py:26-139), called directly.  The     *)
(* fractions it reports are in hundredths.                                 *)

Shapes == {<<1, 2, 2>>, <<2, 2, 2>>, <<2, 2, 3>>}

NoColoc == [shape1 |-> <<>>, shape2 |-> <<>>, cb |-> NoCallback]

PlainCallback == [kind |-> "plain", base |-> 0, span |-> 1, step |-> "kernel"]

\* colocalization_analysis comparing the shapes after the Pearson stage
colocalization_analysis_late_check(shape1, shape2) ==
    <<[op |-> "report", progress |-> 0],
      [op |-> "report", progress |-> 20],
      [op |-> "compute", metrics |-> {"pearson_r"}]>>
    \o (IF shape1 # shape2
        THEN <<RaiseStep(Exc("ValueError", "Channels must have the same shape",
                             "colocalization_analysis"))>>
        ELSE <<>>)
    \o <<[op |-> "report", progress |-> 50],
         [op |-> "compute", metrics |-> {"threshold_ch1", "threshold_ch2"}],
         [op |-> "report", progress |-> 70],
         [op |-> "compute", metrics |-> {"manders_m1", "manders_m2"}],
         [op |-> "report", progress |-> 85],
         [op |-> "compute", metrics |-> {"overlap_coefficient"}],
         [op |-> "report", progress |-> 100],
         ReturnStep([k \in {"pearson_r", "manders_m1", "manders_m2",
                            "overlap_coefficient", "threshold_ch1",
                            "threshold_ch2"} |-> "value"])>>

colocalization_analysis(shape1, shape2) ==
    <<[op |-> "report", progress |-> 0]>>
    \o (IF shape1 # shape2
        THEN <<RaiseStep(Exc("ValueError", "Channels must have the same shape",
                             "colocalization_analysis"))>>
        ELSE <<>>)
    \o <<[op |-> "report", progress |-> 20],
         [op |-> "compute", metrics |-> {"pearson_r"}],
         [op |-> "report", progress |-> 50],
         [op |-> "compute", metrics |-> {"threshold_ch1", "threshold_ch2"}],
         [op |-> "report", progress |-> 70],
         [op |-> "compute", metrics |-> {"manders_m1", "manders_m2"}],
         [op |-> "report", progress |-> 85],
         [op |-> "compute", metrics |-> {"overlap_coefficient"}],
         [op |-> "report", progress |-> 100],
         ReturnStep([k \in {"pearson_r", "manders_m1", "manders_m2",
                            "overlap_coefficient", "threshold_ch1",
                            "threshold_ch2"} |-> "value"])>>


-----------------------------------------------------------------------------
(* DeviceManager values (device_manager.py) *)

\* The object super().__new__(cls) creates: it has no instance attribute
\* yet, so _device and _device_info read the class attributes None and {}.
NewObject == [initialized |-> FALSE, device |-> None, device_info |-> EmptyDict]

\* What the platform tool of a back end can answer: nothing usable (it is
\* missing, fails, times out or prints no name), a name, or, for
\* nvidia-smi, a name and a compute capability separated by a comma
ToolAnswers(backend) ==
    CASE backend = "CUDA" -> {"no answer", "name", "name, compute_cap"}
      [] backend = "METAL" -> {"no answer", "name"}
      [] OTHER -> {"no answer"}

\* _get_cuda_info (device_manager.py:82-102) / _get_metal_info (104-125) /
\* the CPU literal (73)
DeviceInfo(backend, answer) ==
    CASE backend = "CUDA" ->
            [name |-> IF answer = "no answer" THEN "NVIDIA GPU" ELSE "nvidia-smi name",
             compute_capability |-> IF answer = "name, compute_cap" THEN "cap" ELSE None,
             type |-> "CUDA"]
      [] backend = "METAL" ->
            [name |-> IF answer = "no answer" THEN "Apple GPU"
                      ELSE "system_profiler name",
             compute_capability |-> None, type |-> "METAL"]
      [] OTHER -> [name |-> "CPU", compute_capability |-> None]

\* DeviceManager.device: `return self._device or "CPU"`
device(o) == IF o.device = None THEN "CPU" ELSE o.device

\* DeviceManager.device_info: `return self._device_info.copy()`; alias tells
\* whether the caller got the manager's own dict.
device_info(o) == [value |-> o.device_info, alias |-> FALSE]

\* ZStackAnalyzer._get_gpu_device: f"{device_name} ({device_type})"
_get_gpu_device(o) ==
    <<Get(device_info(o).value, "name", "Unknown"), device(o)>>

Threads == 1..MaxThreads

\* What callers have read from the two properties so far
NothingReported == [device |-> {}, device_info |-> {}]

ThreadIdle == [op |-> "idle", self |-> 0]

Untried == [CUDA |-> "untried", METAL |-> "untried"]

\* _detect_device with no handler around the probes: a failed CUDA probe
\* reaches the outer handler, which selects the CPU
after_probe_outer_handler(backend, ok) ==
    CASE backend = "CUDA" -> IF ok THEN "cuda_device" ELSE "cpu"
      [] backend = "METAL" -> IF ok THEN "metal_device" ELSE "cpu"

\* Where _detect_device goes after a probe (device_manager.py:49-68): after
\* a probe that succeeded self._device is assigned; a probe that raised is
\* swallowed by `except Exception: pass` and the next back end is tried
after_probe(backend, ok) ==
    CASE backend = "CUDA" -> IF ok THEN "cuda_device" ELSE "metal"
      [] backend = "METAL" -> IF ok THEN "metal_device" ELSE "cpu"

\* An __init__ that detects on every construction
needs_init_always(o) == TRUE

\* `if not hasattr(self, '_initialized')` (device_manager.py:34)
needs_init(o) == ~o.initialized


-----------------------------------------------------------------------------
(* The analyzer's transitions *)

Idle == [fn |-> "idle", ip |-> 0]

Done == [fn |-> "done", ip |-> 0]

NoOutcome == [kind |-> "pending", exc |-> NoExc, envelope |-> <<>>]

\* The part of the state a step may change
Cur ==
    [pc |-> pc, events |-> events, sinkRaised |-> sinkRaised,
     funcCalls |-> funcCalls, kernels |-> kernels, results |-> results,
     outcome |-> outcome, thrown |-> thrown, computed |-> computed]

Apply(s) ==
    /\ pc' = s.pc
    /\ events' = s.events
    /\ sinkRaised' = s.sinkRaised
    /\ funcCalls' = s.funcCalls
    /\ kernels' = s.kernels
    /\ results' = s.results
    /\ outcome' = s.outcome
    /\ thrown' = s.thrown
    /\ computed' = s.computed

Advance(s) == [s EXCEPT !.pc.ip = @ + 1]

\* The call ends with exception e reaching its caller
Raise(s, e) ==
    [s EXCEPT !.pc = Done,
              !.outcome = [kind |-> "raised", exc |-> e, envelope |-> <<>>]]

\* A handler that raises an error of its own in place of the one it caught
except_handler_masking(s, e) ==
    Raise(s, Exc("RuntimeError", "Analysis failed", "analyze"))

\* analyze's handler (analyzer.py:86-88): logger.error(...); raise
except_handler(s, e) == Raise(s, e)

\* Exception e arises in the function s.pc.fn, inside analyze's try block
Fail(s, e) == except_handler([s EXCEPT !.thrown = [fn |-> s.pc.fn, exc |-> e]], e)

\* Exception e arises where no handler of the model encloses it
Throw(s, e) == Raise([s EXCEPT !.thrown = [fn |-> s.pc.fn, exc |-> e]], e)

\* The sink is called with (progress, step, eta); it raises iff sinkFails.
Deliver(s, progress, step, sinkFails) ==
    [s EXCEPT !.events = Append(@, [progress |-> progress, step |-> step]),
              !.sinkRaised = @ \/ sinkFails]

SinkError == Exc("SinkError", "progress sink failed", "progress_callback")

\* ZStackAnalyzer._emit_progress (analyzer.py:43-46), inside analyze's try:
\*   if self.progress_callback: await self.progress_callback(progress, step, eta)
_emit_progress(s, progress, step, sinkFails) ==
    IF hasSink
    THEN IF sinkFails
         THEN Fail(Deliver(s, progress, step, TRUE), SinkError)
         ELSE Advance(Deliver(s, progress, step, FALSE))
    ELSE Advance(s)

\* analyze's return value (analyzer.py:76-84)
Envelope(s) ==
    [algorithm |-> algorithm,
     version |-> "1.0.0",
     gpu_device |-> _get_gpu_device(objs[cls_instance]),
     results |-> s.results[1],
     confidence_score |-> DictGet(s.results[1], "confidence_score")]

\* The index in analyze_body of the statement after the await of the
\* algorithm function
AfterCall ==
    1 + CHOOSE i \in DOMAIN analyze_body : analyze_body[i].op = "call"

\* One step of analyze or of the algorithm function it awaits
ExecStep(s, st, sinkFails) ==
    CASE st.op = "emit" -> _emit_progress(s, st.progress, st.step, sinkFails)
      [] st.op = "call" ->
            [s EXCEPT !.funcCalls = @ + 1, !.pc = [fn |-> "algorithm", ip |-> 1]]
      [] st.op = "kernel" ->
            LET k == run_in_executor(st.name, st.cb, parameters)
                s1 == [s EXCEPT !.kernels =
                          Append(@, [name |-> st.name, computed |-> k.computed])]
            IN  IF k.raised THEN Fail(s1, k.exc) ELSE Advance(s1)
      [] st.op = "raise" -> Fail(s, st.exc)
      [] st.op = "return" ->
            [s EXCEPT !.results = <<st.results>>,
                      !.pc = [fn |-> "analyze", ip |-> AfterCall]]
      [] st.op = "envelope" ->
            [s EXCEPT !.pc = Done,
                      !.outcome = [kind |-> "returned", exc |-> NoExc,
                                   envelope |-> <<Envelope(s)>>]]

\* The sink's behaviours to try at a step
SinkChoices(st) == IF st.op = "emit" /\ hasSink THEN BOOLEAN ELSE {FALSE}

\* analyze entered without the check of the algorithm id
analyze_call_unchecked ==
    /\ pc = Idle
    /\ \E alg \in AlgorithmIds, sink \in BOOLEAN :
         \E p \in ParametersFor(alg) :
            /\ algorithm' = alg
            /\ parameters' = p
            /\ hasSink' = sink
            /\ Apply([Cur EXCEPT !.pc = [fn |-> "analyze", ip |-> 1]])
    /\ UNCHANGED <<data, loads, coloc, deviceVars, kernelVars, apiVars>>

\* analyze(file_path, algorithm, parameters) is called (analyzer.py:48-57)
analyze_call ==
    /\ pc = Idle
    /\ \E alg \in AlgorithmIds, sink \in BOOLEAN :
         \E p \in ParametersFor(alg) :
            /\ algorithm' = alg
            /\ parameters' = p
            /\ hasSink' = sink
            /\ IF alg \notin available_algorithms
               THEN Apply(Throw([Cur EXCEPT !.pc.fn = "analyze"],
                                Exc("ValueError", "Unknown algorithm", "analyze")))
               ELSE Apply([Cur EXCEPT !.pc = [fn |-> "analyze", ip |-> 1]])
    /\ UNCHANGED <<data, loads, coloc, deviceVars, kernelVars, apiVars>>

\* await self.image_loader.load_image(file_path) (analyzer.py:62): it yields
\* a volume or raises ImageLoadError (image_loader.py:205-228)
load_image ==
    /\ pc.fn = "analyze"
    /\ analyze_body[pc.ip].op = "load"
    /\ loads' = loads + 1
    /\ \/ \E d \in Volumes : data' = d /\ Apply(Advance(Cur))
       \/ /\ data' = data
          /\ Apply(Fail(Cur, Exc("ImageLoadError", "Image loading failed",
                                 "load_image")))
    /\ UNCHANGED <<algorithm, parameters, hasSink, coloc, deviceVars, kernelVars, apiVars>>

\* The other statements of analyze (analyzer.py:61-84)
analyze ==
    /\ pc.fn = "analyze"
    /\ analyze_body[pc.ip].op # "load"
    /\ \E sinkFails \in SinkChoices(analyze_body[pc.ip]) :
          Apply(ExecStep(Cur, analyze_body[pc.ip], sinkFails))
    /\ UNCHANGED <<algorithm, parameters, hasSink, data, loads, coloc, deviceVars, kernelVars, apiVars>>

\* One step of the algorithm function `alg` that analyze awaits
RunAlgorithm(alg) ==
    /\ pc.fn = "algorithm"
    /\ algorithm = alg
    /\ LET st == AlgorithmBody(alg, data, parameters)[pc.ip]
       IN  \E sinkFails \in SinkChoices(st) : Apply(ExecStep(Cur, st, sinkFails))
    /\ UNCHANGED <<algorithm, parameters, hasSink, data, loads, coloc, deviceVars, kernelVars, apiVars>>

run_segmentation_3d == RunAlgorithm("segmentation_3d")

run_colocalization == RunAlgorithm("colocalization")

run_intensity_analysis == RunAlgorithm("intensity_analysis")

run_deconvolution == RunAlgorithm("deconvolution")

run_blob_detection == RunAlgorithm("blob_detection")

run_object_measurements == RunAlgorithm("object_measurements")

run_z_profile == RunAlgorithm("z_profile")

\* colocalization_analysis(channel1, channel2, None, None, None, cb) is called
\* directly, with no callback or with a plain one
colocalization_call ==
    /\ pc = Idle
    /\ \E s1 \in Shapes, s2 \in Shapes, cb \in {NoCallback, PlainCallback} :
          coloc' = [shape1 |-> s1, shape2 |-> s2, cb |-> cb]
    /\ pc' = [fn |-> "colocalization_analysis", ip |-> 1]
    /\ UNCHANGED <<algorithm, parameters, data, hasSink, events, sinkRaised, loads,
                   funcCalls, kernels, results, outcome, thrown, computed,
                   deviceVars, kernelVars, apiVars>>

\* One step of colocalization_analysis called directly (analysis.py:54-139)
ColocStep(s, st, sinkFails) ==
    CASE st.op = "report" ->
            LET r == progress_callback(coloc.cb, st.progress, sinkFails)
                s1 == IF coloc.cb.kind = "plain"
                      THEN Deliver(s, st.progress, coloc.cb.step, sinkFails)
                      ELSE s
            IN  IF r.raised THEN Throw(s1, r.exc) ELSE Advance(s1)
      [] st.op = "compute" -> Advance([s EXCEPT !.computed = @ \cup st.metrics])
      [] st.op = "raise" -> Throw(s, st.exc)
      [] st.op = "return" ->
            [s EXCEPT !.results = <<st.results>>, !.pc = Done,
                      !.outcome = [kind |-> "returned", exc |-> NoExc,
                                   envelope |-> <<>>]]

colocalization_step ==
    /\ pc.fn = "colocalization_analysis"
    /\ LET st == colocalization_analysis(coloc.shape1, coloc.shape2)[pc.ip]
       IN  \E sinkFails \in (IF st.op = "report" /\ coloc.cb.kind = "plain"
                              THEN BOOLEAN ELSE {FALSE}) :
              Apply(ColocStep(Cur, st, sinkFails))
    /\ UNCHANGED <<algorithm, parameters, hasSink, data, loads, coloc, deviceVars, kernelVars, apiVars>>

\* The DeviceManager the analyzer holds was constructed when core.gpu was
\* imported (device_manager.py:258); detection left one of these.
DetectedObjects ==
    UNION {{[initialized |-> TRUE, device |-> b, device_info |-> DeviceInfo(b, a)] :
               a \in ToolAnswers(b)} : b \in {"CUDA", "METAL", "CPU"}}

\* The process once a ZStackAnalyzer exists.  Importing core.gpu has run
\* DeviceManager() five times (device_manager.py:258, kernels.py:26,
\* segmentation.py:29, analysis.py:22, deconvolution.py:22) and
\* ZStackAnalyzer.__init__ a sixth time (analyzer.py:30): the first call ran
\* the detection, every call returned the one instance.  __init__ then read
\* .device once for its log line (analyzer.py:41).
InitDeviceDetected ==
    /\ tpc = [t \in Threads |-> ThreadIdle]
    /\ objs \in {<<o>> : o \in DetectedObjects}
    /\ cls_instance = 1
    /\ DeviceDEFAULT = objs[1].device
    /\ constructions = 6
    /\ handles = <<1, 1, 1, 1, 1, 1>>
    /\ detections = 1
    /\ probed = [CUDA |-> IF objs[1].device = "CUDA" THEN "ok" ELSE "failed",
                 METAL |-> CASE objs[1].device = "CUDA" -> "untried"
                             [] objs[1].device = "METAL" -> "ok"
                             [] OTHER -> "failed"]
    /\ reported = [device |-> {device(objs[1])}, device_info |-> {}]
    /\ held = [value |-> EmptyDict, alias |-> FALSE]

InitAnalyzerIdle ==
    /\ pc = Idle
    /\ algorithm = None
    /\ parameters = EmptyDict
    /\ data = NoData
    /\ hasSink = FALSE
    /\ events = <<>>
    /\ sinkRaised = FALSE
    /\ loads = 0
    /\ funcCalls = 0
    /\ kernels = <<>>
    /\ results = <<>>
    /\ outcome = NoOutcome
    /\ thrown = [fn |-> "", exc |-> NoExc]
    /\ coloc = NoColoc
    /\ computed = {}

\* The coroutine before analyze_image is called
NoRun ==
    [pc |-> "idle", session_id |-> None, image |-> TRUE, confidence |-> <<>>,
     needs_rollback |-> FALSE, escaped |-> FALSE]

\* No connection, no coroutine, and an uploaded image that no run has touched
InitApiIdle ==
    /\ active_connections = {}
    /\ sessions = EmptyDict
    /\ connection_metadata = EmptyDict
    /\ heartbeat_tasks = EmptyDict
    /\ uuids = 0
    /\ ops = <<>>
    /\ inbox = <<>>
    /\ run = NoRun
    /\ processing_status = "uploaded"
    /\ emitted = <<>>

\* No kernel or analysis function has been called directly
InitKernelsIdle ==
    /\ call = [fn |-> "none"]
    /\ ret = [kind |-> "none"]
    /\ InitApiIdle

Init ==
    /\ InitAnalyzerIdle
    /\ InitDeviceDetected
    /\ InitKernelsIdle

Next ==
    \/ analyze_call
    \/ load_image
    \/ analyze
    \/ run_segmentation_3d
    \/ run_colocalization
    \/ run_intensity_analysis
    \/ run_deconvolution
    \/ run_blob_detection
    \/ run_object_measurements
    \/ run_z_profile
    \/ colocalization_call
    \/ colocalization_step

Spec == Init /\ [][Next]_vars


-----------------------------------------------------------------------------
(* Claims about the orchestrator, checked under Spec *)

\* The seven ids the specification registers
SevenIds ==
    {"segmentation_3d", "colocalization", "intensity_analysis", "deconvolution",
     "blob_detection", "object_measurements", "z_profile"}

InAnalyze == algorithm # None

\* The stage labels analyze itself emits after the algorithm function
Stages(labels) == {i \in DOMAIN events : events[i].step \in labels}

\* C1: for an algorithm id that is not one of the seven registered ids,
\* analyze raises before it emits any progress event, before it loads the
\* image and before it invokes any algorithm function.
C1_UnknownAlgorithmFailsFast ==
    (InAnalyze /\ algorithm \notin SevenIds) =>
        /\ pc = Done
        /\ outcome.kind = "raised"
        /\ outcome.exc = Exc("ValueError", "Unknown algorithm", "analyze")
        /\ events = <<>>
        /\ loads = 0
        /\ funcCalls = 0
        /\ kernels = <<>>

C1_Witness ==
    /\ algorithm = "classification"
    /\ hasSink
    /\ outcome.kind = "raised"

\* C3: if the progress sink raises while a progress value is being reported,
\* the analysis is not aborted: analyze still runs the algorithm to completion
\* and returns its result envelope.
C3_SinkFailureDoesNotAbort ==
    (InAnalyze /\ algorithm \in SevenIds /\ sinkRaised /\ pc = Done) =>
        /\ outcome.kind = "returned"
        /\ Len(outcome.envelope) = 1

\* C4: if the selected algorithm function raises, analyze raises that same
\* exception to its caller, has invoked the algorithm function exactly once,
\* and emits neither the finalizing nor the complete progress event.
C4_AlgorithmErrorPropagates ==
    (InAnalyze /\ thrown.fn = "algorithm") =>
        /\ pc = Done
        /\ outcome.kind = "raised"
        /\ outcome.exc = thrown.exc
        /\ outcome.envelope = <<>>
        /\ funcCalls = 1
        /\ Stages({"Finalizing results", "Analysis complete"}) = {}

C4_Witness ==
    /\ algorithm = "deconvolution"
    /\ thrown.fn = "algorithm"
    /\ thrown.exc.type = "ValueError"
    /\ outcome.kind = "raised"

InvalidMethod ==
    \/ /\ algorithm = "segmentation_3d"
       /\ Get(parameters, "method", "threshold") \notin {"threshold", "watershed"}
    \/ /\ algorithm = "deconvolution"
       /\ Get(parameters, "method", "richardson_lucy")
              \notin {"richardson_lucy", "wiener"}

\* C5: for segmentation_3d and for deconvolution, a method parameter outside
\* the accepted set makes analyze fail before any compute kernel (Gaussian
\* smoothing, PSF generation, segmentation or restoration) has been run.
C5_InvalidMethodFailsBeforeCompute ==
    (InAnalyze /\ InvalidMethod) =>
        /\ \A i \in DOMAIN kernels : ~kernels[i].computed
        /\ outcome.kind # "returned"

\* C6: object_measurements requested without a labels parameter fails with an
\* error before the measurement routine is invoked and before any
\* algorithm-stage progress event is emitted; no result envelope is returned.
C6_MissingLabelsFailsFast ==
    (algorithm = "object_measurements" /\ Get(parameters, "labels", None) = None) =>
        /\ kernels = <<>>
        /\ \A i \in DOMAIN events :
              events[i].step \in {"Loading image data",
                                  "Image loaded, initializing analysis"}
        /\ outcome.kind # "returned"
        /\ outcome.envelope = <<>>
        /\ (funcCalls = 1 /\ pc = Done) =>
              /\ outcome.kind = "raised"
              /\ outcome.exc.type = "ValueError"
              /\ outcome.exc.origin = "_run_object_measurements"

C6_Witness ==
    /\ algorithm = "object_measurements"
    /\ Get(parameters, "labels", None) = None
    /\ funcCalls = 1
    /\ Len(events) = 2
    /\ outcome.kind = "raised"

ColocMetrics == {"pearson_r", "manders_m1", "manders_m2"}

\* C7: colocalization fails with an error and yields no metrics when the
\* volume has fewer than two channels (the orchestrator's check) or when the
\* two channels differ in shape (colocalization_analysis's check); in neither
\* case is a Pearson or Manders value computed or returned.
C7_ColocalizationShapeErrors ==
    /\ (algorithm = "colocalization" /\ funcCalls = 1
            /\ (data.ndim < 4 \/ data.shape0 < 2)) =>
          /\ kernels = <<>>
          /\ computed = {}
          /\ results = <<>>
          /\ outcome.kind # "returned"
          /\ \A i \in DOMAIN events :
                events[i].step \in {"Loading image data",
                                    "Image loaded, initializing analysis"}
          /\ pc = Done =>
                /\ outcome.kind = "raised"
                /\ outcome.exc.type = "ValueError"
                /\ outcome.exc.origin = "_run_colocalization"
    /\ (coloc # NoColoc /\ coloc.shape1 # coloc.shape2) =>
          /\ computed \cap ColocMetrics = {}
          /\ results = <<>>
          /\ outcome.kind # "returned"
          /\ pc = Done => outcome.kind = "raised"

C7_Witness ==
    /\ coloc # NoColoc
    /\ coloc.shape1 # coloc.shape2
    /\ coloc.cb.kind = "plain"
    /\ Len(events) = 1
    /\ ~sinkRaised
    /\ outcome.kind = "raised"
    /\ outcome.exc.origin = "colocalization_analysis"

-----------------------------------------------------------------------------
(* DeviceManager: construction, detection and the two properties           *)
(* (device_manager.py:19-135).  A thread's DeviceManager() call runs        *)
(* __new__, then __init__, statement by statement.                          *)

AllIdle == \A t \in Threads : tpc[t].op = "idle"

Goto(t, op, self) == tpc' = [tpc EXCEPT ![t] = [op |-> op, self |-> self]]

\* DeviceManager() returns the object to its caller, which keeps it
Return(t) ==
    /\ handles' = Append(handles, tpc[t].self)
    /\ Goto(t, "idle", tpc[t].self)

\* A caller starts DeviceManager()
DeviceManager_call(t) ==
    /\ tpc[t].op = "idle"
    /\ constructions < MaxConstructions
    /\ constructions' = constructions + 1
    /\ Goto(t, "new", 0)
    /\ UNCHANGED <<objs, cls_instance, DeviceDEFAULT, handles, detections, probed,
                   reported, held, analyzerVars,
                   kernelVars, apiVars>>

\* __new__: `if cls._instance is None:` (device_manager.py:28)
DeviceManager_new(t) ==
    /\ tpc[t].op = "new"
    /\ Goto(t, IF cls_instance = 0 THEN "create" ELSE "new_return", 0)
    /\ UNCHANGED <<objs, cls_instance, DeviceDEFAULT, constructions, handles,
                   detections, probed, reported, held, analyzerVars,
                   kernelVars, apiVars>>

\* __new__: `cls._instance = super().__new__(cls)` (device_manager.py:29)
DeviceManager_create(t) ==
    /\ tpc[t].op = "create"
    /\ objs' = Append(objs, NewObject)
    /\ cls_instance' = Len(objs) + 1
    /\ Goto(t, "new_return", 0)
    /\ UNCHANGED <<DeviceDEFAULT, constructions, handles, detections, probed,
                   reported, held, analyzerVars,
                   kernelVars, apiVars>>

\* __new__: `return cls._instance` (device_manager.py:30); __init__ is then
\* called on the object returned
DeviceManager_new_return(t) ==
    /\ tpc[t].op = "new_return"
    /\ Goto(t, "init", cls_instance)
    /\ UNCHANGED <<objs, cls_instance, DeviceDEFAULT, constructions, handles,
                   detections, probed, reported, held, analyzerVars,
                   kernelVars, apiVars>>

\* __init__: `if not hasattr(self, '_initialized'):` (device_manager.py:34)
DeviceManager_init(t) ==
    /\ tpc[t].op = "init"
    /\ IF needs_init(objs[tpc[t].self])
       THEN /\ Goto(t, "mark", tpc[t].self)
            /\ UNCHANGED handles
       ELSE Return(t)
    /\ UNCHANGED <<objs, cls_instance, DeviceDEFAULT, constructions, detections,
                   probed, reported, held, analyzerVars,
                   kernelVars, apiVars>>

\* __init__: `self._initialized = True; self._detect_device()`
\* (device_manager.py:35-36), up to the first probe
DeviceManager_mark(t) ==
    /\ tpc[t].op = "mark"
    /\ objs' = [objs EXCEPT ![tpc[t].self].initialized = TRUE]
    /\ detections' = detections + 1
    /\ probed' = Untried
    /\ Goto(t, "cuda", tpc[t].self)
    /\ UNCHANGED <<cls_instance, DeviceDEFAULT, constructions, handles, reported,
                   held, analyzerVars,
                   kernelVars, apiVars>>

\* The position of a thread in the try block of a back end
At(backend, statement) == (IF backend = "CUDA" THEN "cuda" ELSE "metal") \o statement

\* _detect_device: `Device.DEFAULT = "CUDA"` / `Device.DEFAULT = "METAL"`
\* (device_manager.py:50, 61)
set_default(t, backend) ==
    /\ tpc[t].op = At(backend, "")
    /\ DeviceDEFAULT' = backend
    /\ Goto(t, At(backend, "_realize"), tpc[t].self)
    /\ UNCHANGED <<objs, cls_instance, constructions, handles, detections, probed,
                   reported, held, analyzerVars,
                   kernelVars, apiVars>>

\* _detect_device, the probe: `Tensor([1.0], device=backend).realize()`
\* returns or raises (device_manager.py:51, 62)
probe(t, backend) ==
    /\ tpc[t].op = At(backend, "_realize")
    /\ \E ok \in BOOLEAN :
          /\ probed' = [probed EXCEPT ![backend] = IF ok THEN "ok" ELSE "failed"]
          /\ Goto(t, after_probe(backend, ok), tpc[t].self)
    /\ UNCHANGED <<objs, cls_instance, DeviceDEFAULT, constructions, handles,
                   detections, reported, held, analyzerVars,
                   kernelVars, apiVars>>

probe_cuda(t) == probe(t, "CUDA")

probe_metal(t) == probe(t, "METAL")

\* _detect_device: `self._device = "CUDA"` / `self._device = "METAL"`
\* (device_manager.py:52, 63)
set_device(t, backend) ==
    /\ tpc[t].op = At(backend, "_device")
    /\ objs' = [objs EXCEPT ![tpc[t].self].device = backend]
    /\ Goto(t, At(backend, "_info"), tpc[t].self)
    /\ UNCHANGED <<cls_instance, DeviceDEFAULT, constructions, handles, detections,
                   probed, reported, held, analyzerVars,
                   kernelVars, apiVars>>

\* self._device_info = self._get_cuda_info() / self._get_metal_info(); return
\* (device_manager.py:53-55, 64-66, 82-125)
get_info(t) ==
    /\ tpc[t].op \in {"cuda_info", "metal_info"}
    /\ LET backend == IF tpc[t].op = "cuda_info" THEN "CUDA" ELSE "METAL"
       IN  \E answer \in ToolAnswers(backend) :
              objs' = [objs EXCEPT ![tpc[t].self].device_info =
                          DeviceInfo(backend, answer)]
    /\ Return(t)
    /\ UNCHANGED <<cls_instance, DeviceDEFAULT, constructions, detections, probed,
                   reported, held, analyzerVars,
                   kernelVars, apiVars>>

\* The fallback: `Device.DEFAULT = "CPU"` (device_manager.py:71)
fallback_default(t) ==
    /\ tpc[t].op = "cpu"
    /\ DeviceDEFAULT' = "CPU"
    /\ Goto(t, "cpu_device", tpc[t].self)
    /\ UNCHANGED <<objs, cls_instance, constructions, handles, detections, probed,
                   reported, held, analyzerVars,
                   kernelVars, apiVars>>

\* The fallback: `self._device = "CPU"` (device_manager.py:72)
fallback_device(t) ==
    /\ tpc[t].op = "cpu_device"
    /\ objs' = [objs EXCEPT ![tpc[t].self].device = "CPU"]
    /\ Goto(t, "cpu_info", tpc[t].self)
    /\ UNCHANGED <<cls_instance, DeviceDEFAULT, constructions, handles, detections,
                   probed, reported, held, analyzerVars,
                   kernelVars, apiVars>>

\* The fallback: `self._device_info = {...}` and the return
\* (device_manager.py:73-74)
fallback_cpu(t) ==
    /\ tpc[t].op = "cpu_info"
    /\ objs' = [objs EXCEPT ![tpc[t].self].device_info =
                   DeviceInfo("CPU", "no answer")]
    /\ Return(t)
    /\ UNCHANGED <<cls_instance, DeviceDEFAULT, constructions, detections, probed,
                   reported, held, analyzerVars,
                   kernelVars, apiVars>>

\* A caller that holds the manager reads .device
read_device(t) ==
    /\ tpc[t].op = "idle"
    /\ tpc[t].self # 0
    /\ reported' = [reported EXCEPT !.device = @ \cup {device(objs[tpc[t].self])}]
    /\ UNCHANGED <<tpc, objs, cls_instance, DeviceDEFAULT, constructions, handles,
                   detections, probed, held, analyzerVars,
                   kernelVars, apiVars>>

\* A caller that holds the manager reads .device_info and keeps the dict
read_device_info(t) ==
    /\ tpc[t].op = "idle"
    /\ tpc[t].self # 0
    /\ held' = device_info(objs[tpc[t].self])
    /\ reported' = [reported EXCEPT !.device_info = @ \cup {held'.value}]
    /\ UNCHANGED <<tpc, objs, cls_instance, DeviceDEFAULT, constructions, handles,
                   detections, probed, analyzerVars,
                   kernelVars, apiVars>>

\* The caller changes the dict it was given
edit_held ==
    /\ "name" \in DOMAIN held.value
    /\ held.value.name # "edited"
    /\ held' = [held EXCEPT !.value.name = "edited"]
    /\ objs' = IF held.alias
               THEN [objs EXCEPT ![cls_instance].device_info.name = "edited"]
               ELSE objs
    /\ UNCHANGED <<tpc, cls_instance, DeviceDEFAULT, constructions, handles,
                   detections, probed, reported, analyzerVars,
                   kernelVars, apiVars>>

\* The process before core.gpu.device_manager is imported
InitDevice ==
    /\ InitAnalyzerIdle
    /\ InitKernelsIdle
    /\ tpc = [t \in Threads |-> ThreadIdle]
    /\ objs = <<>>
    /\ cls_instance = 0
    /\ DeviceDEFAULT = "unset"
    /\ constructions = 0
    /\ handles = <<>>
    /\ detections = 0
    /\ probed = Untried
    /\ reported = NothingReported
    /\ held = [value |-> EmptyDict, alias |-> FALSE]

\* Sequential use: a call or a read starts when no other call is running
NextDevice ==
    \/ \E t \in Threads : AllIdle /\ DeviceManager_call(t)
    \/ \E t \in Threads : DeviceManager_new(t)
    \/ \E t \in Threads : DeviceManager_create(t)
    \/ \E t \in Threads : DeviceManager_new_return(t)
    \/ \E t \in Threads : DeviceManager_init(t)
    \/ \E t \in Threads : DeviceManager_mark(t)
    \/ \E t \in Threads : \E backend \in {"CUDA", "METAL"} : set_default(t, backend)
    \/ \E t \in Threads : probe_cuda(t)
    \/ \E t \in Threads : probe_metal(t)
    \/ \E t \in Threads : \E backend \in {"CUDA", "METAL"} : set_device(t, backend)
    \/ \E t \in Threads : get_info(t)
    \/ \E t \in Threads : fallback_default(t)
    \/ \E t \in Threads : fallback_device(t)
    \/ \E t \in Threads : fallback_cpu(t)
    \/ \E t \in Threads : AllIdle /\ read_device(t)
    \/ \E t \in Threads : AllIdle /\ read_device_info(t)
    \/ AllIdle /\ edit_held

SpecDevice == InitDevice /\ [][NextDevice]_vars

\* A module whose last statement no longer constructs the manager: the first
\* construction is left to whichever callers come first
importing_nothing_constructed == FALSE

\* The module is being imported: its last statement,
\* `_device_manager = DeviceManager()` (device_manager.py:258), has started
\* the first construction and has not returned.  The importing thread holds
\* the module's import lock, so no other thread has the class, or the
\* instance, before that construction and its detection have finished.
importing == constructions >= 1 /\ handles = <<>>

\* Concurrent use: once the module is imported, threads interleave statement
\* by statement, and a thread reads the properties of the manager its own
\* DeviceManager() call returned
NextDeviceConcurrent ==
    \/ \E t \in Threads : ~importing /\ DeviceManager_call(t)
    \/ \E t \in Threads : DeviceManager_new(t)
    \/ \E t \in Threads : DeviceManager_create(t)
    \/ \E t \in Threads : DeviceManager_new_return(t)
    \/ \E t \in Threads : DeviceManager_init(t)
    \/ \E t \in Threads : DeviceManager_mark(t)
    \/ \E t \in Threads : \E backend \in {"CUDA", "METAL"} : set_default(t, backend)
    \/ \E t \in Threads : probe_cuda(t)
    \/ \E t \in Threads : probe_metal(t)
    \/ \E t \in Threads : \E backend \in {"CUDA", "METAL"} : set_device(t, backend)
    \/ \E t \in Threads : get_info(t)
    \/ \E t \in Threads : fallback_default(t)
    \/ \E t \in Threads : fallback_device(t)
    \/ \E t \in Threads : fallback_cpu(t)
    \/ \E t \in Threads : read_device(t)

SpecDeviceConcurrent == InitDevice /\ [][NextDeviceConcurrent]_vars

-----------------------------------------------------------------------------
(* Properties of the DeviceManager                                          *)

DetectionOps ==
    {"cuda", "cuda_realize", "cuda_device", "cuda_info",
     "metal", "metal_realize", "metal_device", "metal_info",
     "cpu", "cpu_device", "cpu_info"}

Detecting == \E t \in Threads : tpc[t].op \in DetectionOps

\* The back end the probe outcomes call for: the first of CUDA, METAL whose
\* probe succeeded, else CPU
FirstAvailable ==
    CASE probed.CUDA = "ok" -> "CUDA"
      [] probed.METAL = "ok" -> "METAL"
      [] OTHER -> "CPU"

\* C9: for every combination of probe outcomes, device detection finishes
\* without raising (every detection step has a next step, and the
\* construction returns), and the device selected is the first of CUDA,
\* METAL, CPU whose probe succeeded: CPU exactly when both accelerator probes
\* failed.
C9_DetectionSelectsFirstAvailable ==
    /\ \A t \in Threads :
          tpc[t].op \in DetectionOps =>
             ENABLED (set_default(t, "CUDA") \/ set_default(t, "METAL")
                         \/ probe_cuda(t) \/ probe_metal(t)
                         \/ set_device(t, "CUDA") \/ set_device(t, "METAL")
                         \/ get_info(t) \/ fallback_default(t)
                         \/ fallback_device(t) \/ fallback_cpu(t))
    /\ (handles # <<>> /\ ~Detecting) =>
          /\ detections >= 1
          /\ objs[cls_instance].device = FirstAvailable
          /\ device(objs[cls_instance]) = FirstAvailable
          /\ DeviceDEFAULT = FirstAvailable
          /\ (objs[cls_instance].device = "CPU") <=>
                (probed.CUDA = "failed" /\ probed.METAL = "failed")
          /\ (objs[cls_instance].device = "CUDA") <=> (probed.CUDA = "ok")
          /\ (objs[cls_instance].device = "METAL") <=>
                (probed.CUDA = "failed" /\ probed.METAL = "ok")
          /\ "name" \in DOMAIN objs[cls_instance].device_info

\* Detection has finished with the CUDA probe failed and the METAL probe
\* succeeded, and METAL is the device.
C9_Witness ==
    /\ AllIdle
    /\ handles # <<>>
    /\ probed = [CUDA |-> "failed", METAL |-> "ok"]
    /\ objs[cls_instance].device = "METAL"
    /\ objs[cls_instance].device_info.type = "METAL"

\* C10: once the first DeviceManager has been constructed, every further
\* sequential construction returns the same instance and runs no detection,
\* and the values read from device and device_info never change, whatever
\* callers do with the dicts they were given.
C10_SingletonIsStable ==
    /\ \A i \in DOMAIN handles : handles[i] = handles[1]
    /\ Len(objs) <= 1
    /\ detections <= 1
    /\ Cardinality(reported.device) <= 1
    /\ Cardinality(reported.device_info) <= 1
    /\ (handles # <<>> /\ AllIdle) =>
          /\ reported.device \subseteq {device(objs[cls_instance])}
          /\ reported.device_info \subseteq {objs[cls_instance].device_info}

\* A second construction has returned, both properties have been read and a
\* caller has edited the dict it was given.
C10_Witness ==
    /\ AllIdle
    /\ Len(handles) >= 2
    /\ handles[2] = handles[1]
    /\ detections = 1
    /\ reported.device # {}
    /\ reported.device_info # {}
    /\ held.value # EmptyDict
    /\ held.value.name = "edited"

\* C11: when several threads construct DeviceManager and read device
\* concurrently, detection runs at most once, and no thread reads a device
\* value other than the one detection finally selects: all reads agree, and
\* once no detection is running they equal the manager's device.
C11_ConcurrentReadsSeeFinalDevice ==
    /\ detections <= 1
    /\ Cardinality(reported.device) <= 1
    /\ (reported.device # {} /\ ~Detecting /\ AllIdle) =>
          reported.device = {device(objs[cls_instance])}

\* Two threads are inside DeviceManager() at the same time, after a thread
\* read the device from the manager an earlier call gave it.
C11_Witness ==
    /\ detections = 1
    /\ reported.device # {}
    /\ \A t \in 1..2 : tpc[t].op \in {"new", "new_return", "init"}

-----------------------------------------------------------------------------
(* Kernels and analysis functions called directly, with no progress        *)
(* callback.  A volume is [shape |-> <<z, y, x>>, vox |-> its voxels in     *)
(* C order]; a call is one step: `call` holds the arguments, `ret` the      *)
(* value returned or the exception raised.                                  *)

Returned(v) == [kind |-> "returned", value |-> v]

RaisedIn(e) == [kind |-> "raised", exc |-> e]

\* All sequences over S of length 1..n
SeqsUpTo(S, n) == UNION {[1..k -> S] : k \in 1..n}

SeqMin(q) == CHOOSE v \in {q[k] : k \in DOMAIN q} : \A k \in DOMAIN q : v <= q[k]

SeqMax(q) == CHOOSE v \in {q[k] : k \in DOMAIN q} : \A k \in DOMAIN q : v >= q[k]

\* The sum of f over the keys in S
RECURSIVE SumOver(_, _)
SumOver(f, S) ==
    IF S = {} THEN 0
    ELSE LET k == CHOOSE k \in S : TRUE IN f[k] + SumOver(f, S \ {k})

SetMin(S) == CHOOSE v \in S : \A w \in S : v <= w

\* A behaviour makes one direct call
NotCalled == call.fn = "none"

FlatVolume(q) == [shape |-> <<1, 1, Len(q)>>, vox |-> q]

\* --- otsu_threshold (kernels.py:277-378) ---

\* hist_indices = (vol_norm * (num_bins - 1)).cast(int32), with
\* vol_norm = (v - vol_min) / (vol_max - vol_min + 1e-10)  (kernels.py:302-310)
hist_index(v, lo, hi, num_bins) ==
    IF hi = lo THEN 0 ELSE ((v - lo) * (num_bins - 1)) \div (hi - lo)

\* np.bincount(hist_indices, minlength=num_bins)  (kernels.py:315-317)
bincount(q, num_bins) ==
    [i \in 0..(num_bins - 1) |->
        Cardinality({k \in DOMAIN q :
                        hist_index(q[k], SeqMin(q), SeqMax(q), num_bins) = i})]

\* The bins that hold at least one voxel
Occupied(histogram) == {i \in DOMAIN histogram : histogram[i] > 0}

\* sum_total = (histogram * arange(num_bins)).sum()  (kernels.py:327)
weighted_sum(histogram) ==
    SumOver([i \in DOMAIN histogram |-> i * histogram[i]], Occupied(histogram))

\* The loop of kernels.py:332-354 from bin i on.  best is the largest
\* between-class variance so far as a fraction num/den with the bin that
\* gave it; the variance of bin i is
\*   w_b * w_f * (sum_b / w_b - (sum_total - sum_b) / w_f) ** 2
\*     = (sum_b * w_f - (sum_total - sum_b) * w_b) ** 2 / (w_b * w_f)
\* The scan goes from one occupied bin to the next: an iteration on an empty
\* bin leaves weight_background and sum_background as they are and computes
\* the variance of the last occupied bin again, which the strict test of
\* line 350 rejects.
RECURSIVE otsu_scan(_, _, _, _, _, _, _, _)
otsu_scan(histogram, num_bins, total, sum_total, i, weight_background, sum_background, best) ==
    IF i >= num_bins THEN best.idx
    ELSE LET wb == weight_background + histogram[i]
             wf == total - wb
             sb == sum_background + i * histogram[i]
             d  == sb * wf - (sum_total - sb) * wb
             num == d * d
             den == wb * wf
             later == {j \in Occupied(histogram) : j > i}
             next == IF later = {} THEN num_bins ELSE SetMin(later)
         IN  IF wb = 0
             THEN otsu_scan(histogram, num_bins, total, sum_total, next, wb,
                            sum_background, best)
             ELSE IF wf = 0 THEN best.idx
             ELSE otsu_scan(histogram, num_bins, total, sum_total, next, wb, sb,
                            IF num * best.den > best.num * den
                            THEN [num |-> num, den |-> den, idx |-> i]
                            ELSE best)

\* otsu_threshold: the threshold is the fraction num / den with
\*   threshold_value = threshold_idx / (num_bins - 1) * (vol_max - vol_min) + vol_min
\* and binary_mask = (volume >= threshold_value)  (kernels.py:359-378)
otsu_threshold(volume, num_bins) ==
    LET q == volume.vox
        lo == SeqMin(q)
        hi == SeqMax(q)
        histogram == bincount(q, num_bins)
        idx == otsu_scan(histogram, num_bins, Len(q),
                         weighted_sum(histogram), 0, 0, 0,
                         [num |-> 0, den |-> 1, idx |-> 0])
        num == idx * (hi - lo) + lo * (num_bins - 1)
        den == num_bins - 1
    IN  [threshold |-> [num |-> num, den |-> den],
         binary_mask |-> [shape |-> volume.shape,
                          vox |-> [k \in DOMAIN q |->
                                      IF q[k] * den >= num THEN 1 ELSE 0]]]

OtsuVolumes == {FlatVolume(q) : q \in SeqsUpTo(0..MaxIntensity, MaxVoxels)}

otsu_threshold_call ==
    /\ NotCalled
    /\ \E volume \in OtsuVolumes, num_bins \in {4, 256} :
        /\ call' = [fn |-> "otsu_threshold", volume |-> volume, num_bins |-> num_bins]
        /\ ret' = Returned(otsu_threshold(volume, num_bins))
        /\ UNCHANGED <<analyzerVars, deviceVars, apiVars>>

\* --- connected_components_3d (kernels.py:381-430) ---

Voxels(shape) == 1..(shape[1] * shape[2] * shape[3])

\* The (z, y, x) index of the k-th voxel in C order
Coord(shape, k) ==
    <<(k - 1) \div (shape[2] * shape[3]),
      ((k - 1) \div shape[3]) % shape[2],
      (k - 1) % shape[3]>>

Abs(n) == IF n < 0 THEN -n ELSE n

\* Face neighbours: scipy's default structuring element
\* (generate_binary_structure(3, 1))
Adjacent(shape, a, b) ==
    LET ca == Coord(shape, a)
        cb == Coord(shape, b)
    IN  Abs(ca[1] - cb[1]) + Abs(ca[2] - cb[2]) + Abs(ca[3] - cb[3]) = 1

RECURSIVE Grow(_, _, _)
Grow(shape, fg, S) ==
    LET N == S \cup {b \in fg : \E a \in S : Adjacent(shape, a, b)}
    IN  IF N = S THEN S ELSE Grow(shape, fg, N)

\* scipy.ndimage.label: the connected sets of nonzero voxels, numbered
\* 1..num_features in the order a C-order scan meets them
ndimage_label(volume) ==
    LET fg == {k \in Voxels(volume.shape) : volume.vox[k] # 0}
        first(k) == SetMin(Grow(volume.shape, fg, {k}))
        seeds == {k \in fg : first(k) = k}
    IN  [labeled |-> [shape |-> volume.shape,
                      vox |-> [k \in Voxels(volume.shape) |->
                                 IF k \in fg
                                 THEN Cardinality({r \in seeds : r <= first(k)})
                                 ELSE 0]],
         num_features |-> Cardinality(seeds)]

\* scipy.ndimage.sum(values, labels, index): for each label of index the sum
\* of the values of the voxels that carry it
ndimage_sum(values, labels, index) ==
    [l \in index |-> SumOver(values.vox, {k \in DOMAIN labels.vox : labels.vox[k] = l})]

\* connected_components_3d with the survivors keeping their first labels
connected_components_3d_no_relabel(binary_volume, min_size) ==
    LET first == ndimage_label(binary_volume)
        sizes == ndimage_sum(binary_volume, first.labeled, 0..first.num_features)
    IN  IF min_size > 1
        THEN [labeled |-> [shape |-> binary_volume.shape,
                           vox |-> [k \in DOMAIN first.labeled.vox |->
                                      IF sizes[first.labeled.vox[k]] >= min_size
                                      THEN first.labeled.vox[k] ELSE 0]],
              num_features |-> first.num_features]
        ELSE first

\* connected_components_3d (kernels.py:413-430):
\*   labeled, num_features = ndimage.label(binary_volume)
\*   if min_size > 1:
\*       sizes = ndimage.sum(binary_volume, labeled, range(num_features + 1))
\*       mask_sizes = sizes >= min_size; mask_sizes[0] = 0
\*       labeled, num_features = ndimage.label(mask_sizes[labeled])
connected_components_3d(binary_volume, min_size) ==
    LET first == ndimage_label(binary_volume)
        sizes == ndimage_sum(binary_volume, first.labeled, 0..first.num_features)
        mask_sizes == [l \in 0..first.num_features |->
                          IF l = 0 THEN FALSE ELSE sizes[l] >= min_size]
    IN  IF min_size > 1
        THEN ndimage_label([shape |-> binary_volume.shape,
                            vox |-> [k \in DOMAIN first.labeled.vox |->
                                       IF mask_sizes[first.labeled.vox[k]]
                                       THEN 1 ELSE 0]])
        ELSE first

CCShapes == {<<1, 1, 4>>, <<1, 2, 3>>, <<2, 2, 2>>}

BinaryVolumes ==
    UNION {{[shape |-> sh, vox |-> q] : q \in [Voxels(sh) -> {0, 1}]} : sh \in CCShapes}

connected_components_3d_call ==
    /\ NotCalled
    /\ \E binary_volume \in BinaryVolumes, min_size \in 0..MaxMinSize :
        /\ call' = [fn |-> "connected_components_3d",
                    binary_volume |-> binary_volume, min_size |-> min_size]
        /\ ret' = Returned(connected_components_3d(binary_volume, min_size))
        /\ UNCHANGED <<analyzerVars, deviceVars, apiVars>>

\* --- sobel_3d and _convolve_3d (kernels.py:181-274) ---

\* The position in C order of the voxel with 0-based index (z, y, x)
Index(shape, z, y, x) == z * shape[2] * shape[3] + y * shape[3] + x + 1

\* The two 1-D factors of the Sobel kernels of kernels.py:205-223
smooth(i) == <<1, 2, 1>>[i + 1]

diff(i) == <<-1, 0, 1>>[i + 1]

\* The kernel indices (kz, ky, kx)
Taps == (0..2) \X (0..2) \X (0..2)

\* 32 * sobel_x[kz][ky][kx], 32 * sobel_y[kz][ky][kx], 32 * sobel_z[kz][ky][kx]
sobel_x == [t \in Taps |-> smooth(t[1]) * smooth(t[2]) * diff(t[3])]

sobel_y == [t \in Taps |-> smooth(t[1]) * diff(t[2]) * smooth(t[3])]

sobel_z == [t \in Taps |-> diff(t[1]) * smooth(t[2]) * smooth(t[3])]

\* _convolve_3d (kernels.py:258-274): the sum over the 27 shifted slices
\* volume[kz:z-2+kz, ky:y-2+ky, kx:x-2+kx] * kernel[kz, ky, kx]; the function
\* returns `result`, of shape (z-2, y-2, x-2); result_padded is built and
\* dropped.
_convolve_3d(volume, kernel) ==
    LET out == <<volume.shape[1] - 2, volume.shape[2] - 2, volume.shape[3] - 2>>
        at(k) == Coord(out, k)
    IN  [shape |-> out,
         vox |-> [k \in Voxels(out) |->
                     SumOver([t \in Taps |->
                                 volume.vox[Index(volume.shape, at(k)[1] + t[1],
                                                  at(k)[2] + t[2], at(k)[3] + t[3])]
                                    * kernel[t]],
                             Taps)]]

\* sobel_3d (kernels.py:226-244).  The gradients are kept as 32 * grad, so
\* the value returned for a voxel is sqrt(magnitude_sq_1024 / 1024).
sobel_3d(volume) ==
    LET grad_x == _convolve_3d(volume, sobel_x)
        grad_y == _convolve_3d(volume, sobel_y)
        grad_z == _convolve_3d(volume, sobel_z)
    IN  [shape |-> grad_x.shape,
         magnitude_sq_1024 |->
             [k \in DOMAIN grad_x.vox |->
                 grad_x.vox[k] * grad_x.vox[k] + grad_y.vox[k] * grad_y.vox[k]
                    + grad_z.vox[k] * grad_z.vox[k]]]

\* Shapes with every side in lowest..MaxSide
Shapes3D(lowest) == (lowest..MaxSide) \X (lowest..MaxSide) \X (lowest..MaxSide)

\* Test volumes of a shape: a ramp along z, y or x, or one bright voxel
PatternVolumes(shape) ==
    {[shape |-> shape, vox |-> [k \in Voxels(shape) |-> Coord(shape, k)[a]]] :
        a \in 1..3}
    \cup {[shape |-> shape, vox |-> [k \in Voxels(shape) |-> IF k = b THEN 1 ELSE 0]] :
             b \in {1, shape[1] * shape[2] * shape[3]}}

sobel_3d_call ==
    /\ NotCalled
    /\ \E shape \in Shapes3D(3) : \E volume \in PatternVolumes(shape) :
          /\ call' = [fn |-> "sobel_3d", volume |-> volume]
          /\ ret' = Returned(sobel_3d(volume))
    /\ UNCHANGED <<analyzerVars, deviceVars, apiVars>>

\* --- gaussian_blur_3d and _convolve_1d (kernels.py:70-178) ---

\* kernel_size = int(6 * sigma + 1), made odd (kernels.py:94-96); sigma is
\* given in tenths
kernel_size(sigma10) ==
    LET n == (6 * sigma10 + 10) \div 10
    IN  IF n % 2 = 0 THEN n + 1 ELSE n

\* Tensor.permute(p): axis i of the result is axis p[i] of t (axes from 1)
permute(t, p) ==
    LET sh == <<t.shape[p[1]], t.shape[p[2]], t.shape[p[3]]>>
    IN  [shape |-> sh,
         vox |-> [k \in Voxels(sh) |->
                    LET n == Coord(sh, k)
                        o == [a \in 1..3 |-> n[CHOOSE i \in 1..3 : p[i] = a]]
                    IN  t.vox[Index(t.shape, o[1], o[2], o[3])]]]

\* Tensor.reshape fails when the element counts differ
ReshapeError == [error |-> "cannot reshape"]

\* _convolve_1d whose windows stay inside the unpadded row ('valid' windows)
_convolve_1d_valid(volume, ksize, axis) ==
    LET moved == CASE axis = 0 -> permute(volume, <<2, 3, 1>>)
                   [] axis = 1 -> permute(volume, <<1, 3, 2>>)
                   [] OTHER -> volume
        width == moved.shape[3]
        rows == moved.shape[1] * moved.shape[2]
        count == IF width - ksize + 1 > 0 THEN width - ksize + 1 ELSE 0
    IN  IF rows * count # rows * width THEN ReshapeError ELSE volume

\* _convolve_1d (kernels.py:138-178).  The target axis is moved last, the
\* rows are padded with `pad` copies of their first and of their last sample,
\* one window per i in range(width) is taken, and the result is reshaped and
\* moved back.  A sample is kept as the set of input voxels it is computed
\* from: the union over the window stands for (window * kernel).sum().
_convolve_1d(volume, ksize, axis) ==
    LET moved == CASE axis = 0 -> permute(volume, <<2, 3, 1>>)
                   [] axis = 1 -> permute(volume, <<1, 3, 2>>)
                   [] OTHER -> volume
        orig_shape == moved.shape
        width == orig_shape[3]
        rows == orig_shape[1] * orig_shape[2]
        pad == ksize \div 2
        \* padded[r, c] for c in 0..width + 2 * pad - 1
        padded(r, c) ==
            LET src == IF c < pad THEN 0
                       ELSE IF c >= pad + width THEN width - 1
                       ELSE c - pad
            IN  moved.vox[r * width + src + 1]
        result_list == [i \in 0..(width - 1) |->
                           [r \in 0..(rows - 1) |->
                               UNION {padded(r, i + j - 1) : j \in 1..ksize}]]
        count == Cardinality(DOMAIN result_list)
        result == [shape |-> orig_shape,
                   vox |-> [k \in 1..(rows * count) |->
                              result_list[(k - 1) % count][(k - 1) \div count]]]
    IN  IF rows * count # rows * width THEN ReshapeError
        ELSE CASE axis = 0 -> permute(result, <<3, 1, 2>>)
               [] axis = 1 -> permute(result, <<1, 3, 2>>)
               [] OTHER -> result

\* gaussian_blur_3d (kernels.py:106-122): one of the three passes, along
\* axis 0 (z), then 1 (y), then 2 (x); `running` is the call between passes.
gaussian_blur_3d(running, sigma10) ==
    LET result == _convolve_1d(running.value, kernel_size(sigma10), running.axis)
    IN  IF "error" \in DOMAIN result THEN RaisedIn(result.error)
        ELSE IF running.axis = 2 THEN Returned(result)
        ELSE [kind |-> "running", axis |-> running.axis + 1, value |-> result]

\* sigma, in tenths: 0.1, 0.5 and 1.0 give kernel sizes 1, 5 and 7
Sigmas == {1, 5, 10}

\* The volume of a shape whose k-th voxel is computed from itself only
IndexVolume(shape) == [shape |-> shape, vox |-> [k \in Voxels(shape) |-> {k}]]

\* gaussian_blur_3d is called (kernels.py:90-104)
gaussian_blur_3d_call ==
    /\ NotCalled
    /\ \E shape \in Shapes3D(1), sigma10 \in Sigmas :
          /\ call' = [fn |-> "gaussian_blur_3d", volume |-> IndexVolume(shape),
                      sigma10 |-> sigma10]
          /\ ret' = [kind |-> "running", axis |-> 0, value |-> IndexVolume(shape)]
    /\ UNCHANGED <<analyzerVars, deviceVars, apiVars>>

\* The next pass of a running gaussian_blur_3d call (kernels.py:108, 113, 118)
gaussian_blur_3d_pass ==
    /\ call.fn = "gaussian_blur_3d"
    /\ ret.kind = "running"
    /\ ret' = gaussian_blur_3d(ret, call.sigma10)
    /\ UNCHANGED <<call, analyzerVars, deviceVars, apiVars>>

\* --- richardson_lucy_deconvolution (deconvolution.py:26-99) ---

\* The body of the loop (deconvolution.py:75-89).  The FFT convolutions are
\* not evaluated: the new estimate of a voxel is kept as the term
\*   <<"rl", estimate, clip>>
\* standing for estimate * correction, clipped at 0 when clip is set.
rl_update(estimate, volume, psf, clip) ==
    [estimate EXCEPT !.vox = [k \in DOMAIN estimate.vox |-> <<"rl", estimate.vox[k], clip>>]]

RECURSIVE rl_loop(_, _, _, _, _)
rl_loop(estimate, volume, psf, clip, remaining) ==
    IF remaining <= 0 THEN estimate
    ELSE rl_loop(rl_update(estimate, volume, psf, clip), volume, psf, clip,
                 remaining - 1)

\* np.maximum(estimate, 0)
maximum0(estimate) ==
    [estimate EXCEPT !.vox = [k \in DOMAIN estimate.vox |->
                                 IF estimate.vox[k] < 0 THEN 0 ELSE estimate.vox[k]]]

\* richardson_lucy_deconvolution that clips the initial estimate too
richardson_lucy_deconvolution_clip_first(volume, psf, iterations, clip) ==
    rl_loop(IF clip THEN maximum0(volume) ELSE volume, volume, psf, clip, iterations)

\* richardson_lucy_deconvolution (deconvolution.py:58-99):
\*   estimate = volume.copy(); for iteration in range(iterations): ...;
\*   return estimate
richardson_lucy_deconvolution(volume, psf, iterations, clip) ==
    rl_loop(volume, volume, psf, clip, iterations)

\* Point spread functions: a single sample, an all-zero one (psf.sum() = 0)
\* and a three-sample one
Psfs == {<<1>>, <<0>>, <<1, 2, 1>>}

richardson_lucy_deconvolution_call ==
    /\ NotCalled
    /\ \E q \in SeqsUpTo(-1..1, MaxVoxels), psf \in Psfs,
          iterations \in 0..MaxIterations, clip \in BOOLEAN :
          /\ call' = [fn |-> "richardson_lucy_deconvolution", volume |-> FlatVolume(q),
                      psf |-> psf, iterations |-> iterations, clip |-> clip]
          /\ ret' = Returned(richardson_lucy_deconvolution(FlatVolume(q), psf,
                                                            iterations, clip))
    /\ UNCHANGED <<analyzerVars, deviceVars, apiVars>>

\* --- intensity_statistics (analysis.py:178-249) ---

\* The r-th smallest sample of q
Kth(q, r) ==
    CHOOSE v \in {q[k] : k \in DOMAIN q} :
        /\ Cardinality({k \in DOMAIN q : q[k] < v}) < r
        /\ Cardinality({k \in DOMAIN q : q[k] <= v}) >= r

\* The statistics of a non-empty sequence of samples.  Fractions are pairs
\* <<numerator, denominator>>: mean = sum / n, median = median2 / 2 and
\* std ** 2 = (n * sum of squares - sum ** 2) / (n * (n - ddof)), where ddof
\* is 1 for Tensor.std() and 0 for np.std.
Statistics(q, ddof) ==
    LET n == Len(q)
        total == SumOver(q, DOMAIN q)
        squares == SumOver([k \in DOMAIN q |-> q[k] * q[k]], DOMAIN q)
    IN  [mean |-> <<total, n>>,
         std_sq |-> <<n * squares - total * total, n * (n - ddof)>>,
         min |-> SeqMin(q),
         max |-> SeqMax(q),
         median2 |-> IF n % 2 = 1 THEN 2 * Kth(q, (n + 1) \div 2)
                     ELSE Kth(q, n \div 2) + Kth(q, n \div 2 + 1),
         total_intensity |-> total]

\* An optional argument: <<>> is None, <<v>> is the value v
Missing == <<>>

Given(v) == <<v>>

SetMax(S) == CHOOSE v \in S : \A w \in S : v >= w

\* intensity_statistics (analysis.py:195-249).  Without labels the global
\* statistics are returned.  With labels, the loop over 1..labels.max()
\* evaluates `obj_stats.append(...)` for the first label that has a voxel;
\* the list is named object_stats (line 220), so the name lookup raises
\* NameError.
intensity_statistics(volume, labels) ==
    IF labels = Missing THEN Returned(Statistics(volume.vox, 1))
    ELSE LET lab == labels[1].vox
             num_objects == SetMax({lab[k] : k \in DOMAIN lab})
             present == {l \in 1..num_objects : \E k \in DOMAIN lab : lab[k] = l}
         IN  IF present # {}
             THEN RaisedIn(Exc("NameError", "name 'obj_stats' is not defined",
                               "intensity_statistics"))
             ELSE Returned([num_objects |-> num_objects,
                            object_statistics |-> <<>>,
                            global_mean |-> Statistics(volume.vox, 0).mean,
                            global_std_sq |-> Statistics(volume.vox, 0).std_sq])

\* The label volumes of n voxels with labels 0..MaxLabel
LabelVolumes(n) == {Given(FlatVolume(q)) : q \in [1..n -> 0..MaxLabel]}

intensity_statistics_call ==
    /\ NotCalled
    /\ \E q \in SeqsUpTo(0..MaxIntensity, MaxVoxels) :
          \E labels \in {Missing} \cup LabelVolumes(Len(q)) :
             /\ call' = [fn |-> "intensity_statistics", volume |-> FlatVolume(q),
                         labels |-> labels]
             /\ ret' = intensity_statistics(FlatVolume(q), labels)
    /\ UNCHANGED <<analyzerVars, deviceVars, apiVars>>

\* --- threshold_segmentation (segmentation.py:277-354) ---

\* The voxels on a face of the array
OnBorder(shape, k) ==
    \E a \in 1..3 : Coord(shape, k)[a] \in {0, shape[a] - 1}

\* scipy.ndimage.binary_fill_holes: the background voxels that cannot be
\* reached from outside the array through face-adjacent background voxels
\* become foreground
binary_fill_holes(binary) ==
    LET bg == {k \in Voxels(binary.shape) : binary.vox[k] = 0}
        open == Grow(binary.shape, bg, {k \in bg : OnBorder(binary.shape, k)})
    IN  [binary EXCEPT !.vox = [k \in DOMAIN binary.vox |->
                                   IF k \in bg /\ k \in open THEN 0 ELSE 1]]

\* (volume >= threshold).astype(np.float32)
at_least(volume, threshold) ==
    [volume EXCEPT !.vox = [k \in DOMAIN volume.vox |->
                               IF volume.vox[k] >= threshold THEN 1 ELSE 0]]

\* segmentation.py:329-333: the components below min_object_size are removed
\*   sizes = ndimage.sum(binary, labeled, range(num_features + 1))
\*   mask = sizes >= min_object_size; binary = mask[labeled]
remove_small(binary, min_object_size) ==
    LET first == ndimage_label(binary)
        sizes == ndimage_sum(binary, first.labeled, 0..first.num_features)
    IN  IF min_object_size > 1
        THEN [binary EXCEPT !.vox = [k \in DOMAIN binary.vox |->
                                        IF sizes[first.labeled.vox[k]] >= min_object_size
                                        THEN 1 ELSE 0]]
        ELSE binary

\* segmentation.py:338-354: the cleaned mask is labeled again and returned
\* with the metadata
relabel(binary, threshold, method, min_object_size, fill_holes) ==
    LET final == ndimage_label(binary)
    IN  Returned([labeled |-> final.labeled,
                  metadata |-> [threshold |-> threshold, method |-> method,
                                num_objects |-> final.num_features,
                                min_object_size |-> min_object_size,
                                fill_holes |-> fill_holes]])

\* A cleanup that drops the small components from the first labeling and
\* returns it without labeling again
cleanup_no_relabel(binary0, threshold, method, min_object_size, fill_holes) ==
    LET binary == IF fill_holes THEN binary_fill_holes(binary0) ELSE binary0
        first == ndimage_label(binary)
        kept == remove_small(binary, min_object_size)
    IN  Returned([labeled |-> [binary EXCEPT !.vox =
                                  [k \in DOMAIN binary.vox |->
                                      IF kept.vox[k] = 1 THEN first.labeled.vox[k]
                                      ELSE 0]],
                  metadata |-> [threshold |-> threshold, method |-> method,
                                num_objects |-> first.num_features,
                                min_object_size |-> min_object_size,
                                fill_holes |-> fill_holes]])

\* segmentation.py:318-354: fill holes, remove small objects, relabel
cleanup(binary0, threshold, method, min_object_size, fill_holes) ==
    LET binary == IF fill_holes THEN binary_fill_holes(binary0) ELSE binary0
    IN  relabel(remove_small(binary, min_object_size), threshold, method,
                min_object_size, fill_holes)

\* threshold_segmentation (segmentation.py:304-354)
threshold_segmentation(volume, method, threshold_value, min_object_size, fill_holes) ==
    CASE method = "otsu" ->
            LET otsu == otsu_threshold(volume, 256)
            IN  cleanup(otsu.binary_mask, otsu.threshold, method, min_object_size,
                        fill_holes)
      [] method = "manual" ->
            IF threshold_value = Missing
            THEN RaisedIn(Exc("ValueError", "threshold_value required for manual method",
                              "threshold_segmentation"))
            ELSE cleanup(at_least(volume, threshold_value[1]),
                         [num |-> threshold_value[1], den |-> 1], method,
                         min_object_size, fill_holes)
      [] OTHER ->
            RaisedIn(Exc("ValueError", "Unknown thresholding method",
                         "threshold_segmentation"))

\* A 3x3x3 volume: a closed shell of intensity `shell` around a centre of
\* intensity 0, with the corners at intensity `corner`
ShellVolume(shell, corner) ==
    [shape |-> <<3, 3, 3>>,
     vox |-> [k \in 1..27 |->
                LET c == Coord(<<3, 3, 3>>, k)
                    off == Abs(c[1] - 1) + Abs(c[2] - 1) + Abs(c[3] - 1)
                IN  CASE off = 0 -> 0
                      [] off = 1 -> shell
                      [] off = 2 -> 0
                      [] OTHER -> corner]]

\* The volumes of a call: flat volumes for every method, and hollow shells
\* for the methods that compute no histogram (the variances of a 27-voxel
\* histogram over 256 bins exceed the integers of the checker)
SegmentationVolumes(method) ==
    {FlatVolume(q) : q \in SeqsUpTo(0..MaxIntensity, MaxVoxels)}
    \cup IF method = "otsu" THEN {}
         ELSE {ShellVolume(1, 0), ShellVolume(1, 1), ShellVolume(2, 1)}

\* The threshold_value arguments of a call; the otsu path (segmentation.py:
\* 304-308) does not read the argument and is called with its default
ThresholdValues(method) ==
    {Missing} \cup IF method = "otsu" THEN {}
                  ELSE {Given(t) : t \in 1..MaxIntensity}

threshold_segmentation_call ==
    /\ NotCalled
    /\ \E method \in {"otsu", "manual", "li"} :
       \E volume \in SegmentationVolumes(method),
          threshold_value \in ThresholdValues(method),
          min_object_size \in 0..MaxMinSize, fill_holes \in BOOLEAN :
          /\ call' = [fn |-> "threshold_segmentation", volume |-> volume,
                      method |-> method, threshold_value |-> threshold_value,
                      min_object_size |-> min_object_size, fill_holes |-> fill_holes]
          /\ ret' = threshold_segmentation(volume, method, threshold_value,
                                           min_object_size, fill_holes)
    /\ UNCHANGED <<analyzerVars, deviceVars, apiVars>>

\* --- object_measurements (analysis.py:252-373) ---

\* mask = (labels == obj_id), as the set of the voxels of the object
ObjectMask(labels, obj_id) == {k \in DOMAIN labels.vox : labels.vox[k] = obj_id}

\* The fields of analysis.py:290-326 for voxel_size (1, 1, 1).  The centroid
\* on axis a is the fraction of the coordinate sum by the voxel count, the
\* extent the fraction of the voxel count by the bounding box volume.
basic_measurement(labels, obj_id) ==
    LET mask == ObjectMask(labels, obj_id)
        voxel_count == Cardinality(mask)
        along(a) == [k \in mask |-> Coord(labels.shape, k)[a + 1]]
        lowest(a) == SetMin({along(a)[k] : k \in mask})
        highest(a) == SetMax({along(a)[k] : k \in mask})
        centroid(a) == [num |-> SumOver(along(a), mask), den |-> voxel_count]
        bbox_volume == (highest(0) - lowest(0) + 1) * (highest(1) - lowest(1) + 1)
                          * (highest(2) - lowest(2) + 1)
    IN  [object_id |-> obj_id,
         volume |-> voxel_count,
         voxel_count |-> voxel_count,
         centroid_z |-> centroid(0),
         centroid_y |-> centroid(1),
         centroid_x |-> centroid(2),
         extent |-> [num |-> voxel_count, den |-> bbox_volume],
         bbox |-> [z_min |-> lowest(0), z_max |-> highest(0),
                   y_min |-> lowest(1), y_max |-> highest(1),
                   x_min |-> lowest(2), x_max |-> highest(2)]]

\* measure.marching_cubes on the mask of an object (analysis.py:332-336):
\* the extraction raises for the objects in failing and otherwise gives the
\* mesh of the mask, from which the surface area and the sphericity follow
\* (338-350)
marching_cubes(labels, obj_id, failing) ==
    IF obj_id \in failing
    THEN RaisedIn(Exc("ValueError", "marching_cubes", "object_measurements"))
    ELSE Returned([surface_area |-> Given([area_of |-> ObjectMask(labels, obj_id)]),
                   sphericity |-> Given([sphericity_of |-> ObjectMask(labels, obj_id)])])

\* The measurement fields of an object with the surface fields added
with_surface(m, surface_area, sphericity) ==
    [f \in DOMAIN m \cup {"surface_area", "sphericity"} |->
        CASE f = "surface_area" -> surface_area
          [] f = "sphericity" -> sphericity
          [] OTHER -> m[f]]

\* A loop body in which the failure of the surface extraction is not caught
measure_object_uncaught(labels, obj_id, compute_surface, failing) ==
    LET m == basic_measurement(labels, obj_id)
        mesh == marching_cubes(labels, obj_id, failing)
    IN  IF ~compute_surface THEN Returned(m)
        ELSE IF mesh.kind = "raised" THEN mesh
        ELSE Returned(with_surface(m, mesh.value.surface_area, mesh.value.sphericity))

\* The loop body of analysis.py:290-364 for an object that has voxels: the
\* measurement appended for it
measure_object(labels, obj_id, compute_surface, failing) ==
    LET m == basic_measurement(labels, obj_id)
        mesh == marching_cubes(labels, obj_id, failing)
    IN  IF ~compute_surface THEN Returned(m)
        ELSE IF mesh.kind = "raised" THEN Returned(with_surface(m, Missing, Missing))
        ELSE Returned(with_surface(m, mesh.value.surface_area, mesh.value.sphericity))

\* The loop of analysis.py:283-367 from obj_id on
RECURSIVE measure_loop(_, _, _, _, _, _)
measure_loop(labels, num_objects, obj_id, compute_surface, failing, measurements) ==
    IF obj_id > num_objects THEN Returned(measurements)
    ELSE IF ObjectMask(labels, obj_id) = {}
    THEN measure_loop(labels, num_objects, obj_id + 1, compute_surface, failing,
                      measurements)
    ELSE LET one == measure_object(labels, obj_id, compute_surface, failing)
         IN  IF one.kind = "raised" THEN one
             ELSE measure_loop(labels, num_objects, obj_id + 1, compute_surface,
                               failing, Append(measurements, one.value))

\* object_measurements (analysis.py:277-373)
object_measurements(labels, compute_surface, failing) ==
    measure_loop(labels, SetMax({labels.vox[k] : k \in DOMAIN labels.vox}), 1,
                 compute_surface, failing, <<>>)

\* The labeled volumes of a call: the flat ones and the 2 x 2 x 1 ones
MeasuredVolumes ==
    {FlatVolume(q) : q \in SeqsUpTo(0..MaxLabel, MaxVoxels)}
    \cup {[shape |-> <<2, 2, 1>>, vox |-> q] : q \in [1..4 -> 0..MaxLabel]}

object_measurements_call ==
    /\ NotCalled
    /\ \E labels \in MeasuredVolumes, compute_surface \in BOOLEAN :
       \E failing \in SUBSET {labels.vox[k] : k \in DOMAIN labels.vox} :
          /\ 0 \notin failing
          /\ call' = [fn |-> "object_measurements", labels |-> labels,
                      compute_surface |-> compute_surface, failing |-> failing]
          /\ ret' = object_measurements(labels, compute_surface, failing)
    /\ UNCHANGED <<analyzerVars, deviceVars, apiVars>>


NextKernels ==
    \/ otsu_threshold_call
    \/ connected_components_3d_call
    \/ sobel_3d_call
    \/ gaussian_blur_3d_call
    \/ gaussian_blur_3d_pass
    \/ richardson_lucy_deconvolution_call
    \/ intensity_statistics_call
    \/ threshold_segmentation_call
    \/ object_measurements_call

SpecKernels == InitDevice /\ [][NextKernels]_vars

-----------------------------------------------------------------------------
(* Properties of the kernels                                                *)

\* The volume holds exactly two distinct values
IsBinary(volume) == Cardinality({volume.vox[k] : k \in DOMAIN volume.vox}) = 2

\* C13: for a volume that holds exactly two distinct values, otsu_threshold
\* returns a threshold strictly above the low value and not above the high
\* value, and a mask that is 1 exactly where the input holds the high value.
C13_OtsuSeparatesBinaryVolume ==
    (call.fn = "otsu_threshold" /\ IsBinary(call.volume)) =>
        LET lo == SeqMin(call.volume.vox)
            hi == SeqMax(call.volume.vox)
            t  == ret.value.threshold
        IN  /\ ret.kind = "returned"
            /\ t.num > lo * t.den
            /\ t.num <= hi * t.den
            /\ ret.value.binary_mask.vox =
                  [k \in DOMAIN call.volume.vox |->
                      IF call.volume.vox[k] = hi THEN 1 ELSE 0]

\* The label values of a labeled volume that are positive
PositiveLabels(labeled) == {labeled.vox[k] : k \in DOMAIN labeled.vox} \ {0}

\* The number of voxels that carry label l
LabelSize(labeled, l) == Cardinality({k \in DOMAIN labeled.vox : labeled.vox[k] = l})

\* C14: after connected_components_3d, for any binary input and any min_size,
\* the positive labels present in the returned volume are exactly 1..N with
\* N the returned component count, and every surviving component has at
\* least min_size voxels.
C14_ComponentLabelsAreDense ==
    call.fn = "connected_components_3d" =>
        /\ ret.kind = "returned"
        /\ PositiveLabels(ret.value.labeled) = 1..ret.value.num_features
        /\ \A l \in PositiveLabels(ret.value.labeled) :
              LabelSize(ret.value.labeled, l) >= call.min_size
        /\ \A k \in DOMAIN call.binary_volume.vox :
              ret.value.labeled.vox[k] # 0 => call.binary_volume.vox[k] = 1

\* A call in which the component met first was too small and was dropped,
\* and a later component survived as label 1.
C14_Witness ==
    /\ call.fn = "connected_components_3d"
    /\ call.min_size = 2
    /\ call.binary_volume.vox[1] = 1
    /\ ret.value.labeled.vox[1] = 0
    /\ ret.value.num_features = 1
    /\ PositiveLabels(ret.value.labeled) = {1}

\* C15: sobel_3d returns an edge-magnitude volume with the same (z, y, x)
\* shape as its input volume.
C15_SobelPreservesShape ==
    call.fn = "sobel_3d" =>
        /\ ret.kind = "returned"
        /\ ret.value.shape = call.volume.shape
        /\ DOMAIN ret.value.magnitude_sq_1024 = DOMAIN call.volume.vox

\* C16: gaussian_blur_3d returns a volume of exactly the input's shape, for
\* every input shape and every sigma > 0.
C16_GaussianPreservesShape ==
    call.fn = "gaussian_blur_3d" =>
        /\ ret.kind \in {"running", "returned"}
        /\ ret.value.shape = call.volume.shape
        /\ DOMAIN ret.value.vox = DOMAIN call.volume.vox

\* A blur with a kernel wider than the volume (sigma 1.0, kernel size 7) of
\* a volume with three different sides has returned a volume of that shape.
C16_Witness ==
    /\ call.fn = "gaussian_blur_3d"
    /\ call.sigma10 = 10
    /\ call.volume.shape = <<1, 2, 3>>
    /\ ret.kind = "returned"
    /\ ret.value.shape = <<1, 2, 3>>
    /\ ret.value.vox[1] = 1..6

\* C17: richardson_lucy_deconvolution called with iterations = 0 returns a
\* volume equal to the input volume, whatever the PSF and the clip flag.
C17_ZeroIterationsReturnInput ==
    (call.fn = "richardson_lucy_deconvolution" /\ call.iterations = 0) =>
        /\ ret.kind = "returned"
        /\ ret.value = call.volume

\* A call with iterations = 0, clip set, an all-zero PSF and a volume with a
\* negative voxel has returned the volume, negative voxel included.
C17_Witness ==
    /\ call.fn = "richardson_lucy_deconvolution"
    /\ call.iterations = 0
    /\ call.clip
    /\ call.psf = <<0>>
    /\ call.volume.vox = <<-1, 1>>
    /\ ret.value.vox = <<-1, 1>>

\* The labels in 1..labels.max() that have at least one voxel
NonEmptyLabels(labeled) ==
    {l \in 1..SetMax({labeled.vox[k] : k \in DOMAIN labeled.vox}) :
        LabelSize(labeled, l) > 0}

\* C18: intensity_statistics called with a labeled volume returns one
\* statistics record (mean, std, min, max, median, sum, voxel count) for
\* every label in 1..N that has at least one voxel, together with the global
\* mean and std.
C18_PerLabelStatistics ==
    (call.fn = "intensity_statistics" /\ call.labels # Missing) =>
        /\ ret.kind = "returned"
        /\ {"global_mean", "global_std_sq"} \subseteq DOMAIN ret.value
        /\ Len(ret.value.object_statistics) =
              Cardinality(NonEmptyLabels(call.labels[1]))
        /\ \A l \in NonEmptyLabels(call.labels[1]) :
              \E i \in DOMAIN ret.value.object_statistics :
                 /\ ret.value.object_statistics[i].object_id = l
                 /\ ret.value.object_statistics[i].voxel_count =
                       LabelSize(call.labels[1], l)
                 /\ {"mean", "std_sq", "min", "max", "median2", "total_intensity"}
                       \subseteq DOMAIN ret.value.object_statistics[i]

\* C19: threshold_segmentation returns a labeled volume whose positive
\* labels are exactly 1..N with N the reported num_objects, and in which
\* every labeled component has at least min_object_size voxels.
C19_SegmentationLabelsAreDense ==
    (call.fn = "threshold_segmentation" /\ ret.kind = "returned") =>
        /\ PositiveLabels(ret.value.labeled) = 1..ret.value.metadata.num_objects
        /\ \A l \in PositiveLabels(ret.value.labeled) :
              LabelSize(ret.value.labeled, l) >= call.min_object_size
        /\ ret.value.labeled.shape = call.volume.shape

\* A manual segmentation in which the object met first was too small and
\* was dropped, and a later object survived as label 1.
C19_Witness ==
    /\ call.fn = "threshold_segmentation"
    /\ call.method = "manual"
    /\ call.min_object_size = 2
    /\ call.volume.vox = <<1, 0, 1, 1>>
    /\ call.threshold_value = Given(1)
    /\ ret.kind = "returned"
    /\ ret.value.labeled.vox = <<0, 0, 1, 1>>
    /\ ret.value.metadata.num_objects = 1

\* The fields of a measurement other than the two surface fields
OtherFields(m) == [f \in DOMAIN m \ {"surface_area", "sphericity"} |-> m[f]]

\* C20: object_measurements with surface computation enabled, for any
\* labeled objects and any subset of them whose iso-surface extraction
\* fails, returns one measurement per non-empty label; surface_area and
\* sphericity are null exactly for the failing objects, and all other fields
\* and all other objects' measurements are what they are when nothing fails.
C20_SurfaceFailureIsPerObject ==
    (call.fn = "object_measurements" /\ call.compute_surface) =>
        LET clean == object_measurements(call.labels, TRUE, {})
        IN  /\ ret.kind = "returned"
            /\ Len(ret.value) = Cardinality(NonEmptyLabels(call.labels))
            /\ {ret.value[i].object_id : i \in DOMAIN ret.value} =
                  NonEmptyLabels(call.labels)
            /\ Len(clean.value) = Len(ret.value)
            /\ \A i \in DOMAIN ret.value :
                  /\ OtherFields(ret.value[i]) = OtherFields(clean.value[i])
                  /\ ret.value[i].voxel_count =
                        LabelSize(call.labels, ret.value[i].object_id)
                  /\ (ret.value[i].surface_area = Missing) <=>
                        (ret.value[i].object_id \in call.failing)
                  /\ (ret.value[i].sphericity = Missing) <=>
                        (ret.value[i].object_id \in call.failing)
                  /\ ret.value[i].object_id \notin call.failing =>
                        ret.value[i] = clean.value[i]

\* Two objects, the first of which fails: its surface fields are null and
\* the second object is measured in full.
C20_Witness ==
    /\ call.fn = "object_measurements"
    /\ call.compute_surface
    /\ call.labels.vox = <<1, 0, 2, 2>>
    /\ call.labels.shape = <<2, 2, 1>>
    /\ call.failing = {1}
    /\ ret.kind = "returned"
    /\ Len(ret.value) = 2
    /\ ret.value[1].surface_area = Missing
    /\ ret.value[2].surface_area # Missing
    /\ ret.value[2].voxel_count = 2

-----------------------------------------------------------------------------
(* Direct calls of the loader, the remaining kernels and the analysis       *)
(* helpers.  SpecFunctions makes one such call per behaviour.               *)

\* --- ImageLoader.get_metadata (image_loader.py:102-178) ---

\* str.lower on the suffixes the calls use
lower(suffix) ==
    CASE suffix = ".TIF" -> ".tif"
      [] suffix = ".CZI" -> ".czi"
      [] suffix = ".XYZ" -> ".xyz"
      [] OTHER -> suffix

\* ImageLoader.supported_formats (image_loader.py:93-100): format name and
\* package by extension
supported_formats ==
    [e \in {".tif", ".tiff", ".czi", ".nd2", ".lif"} |->
        CASE e \in {".tif", ".tiff"} -> [format_name |-> "TIFF", package |-> "tifffile"]
          [] e = ".czi" -> [format_name |-> "CZI", package |-> "aicspylibczi"]
          [] e = ".nd2" -> [format_name |-> "ND2", package |-> "nd2"]
          [] e = ".lif" -> [format_name |-> "LIF", package |-> "readlif"]]

\* Importing core.processing.image_loader.  The guarded imports (lines
\* 28-50) leave the names tifffile, CziFile and nd2 unbound when the package
\* is missing, and the class body evaluates the annotations
\* tifffile.TiffFile (348), CziFile (524) and nd2.ND2File (600): the import
\* raises NameError and there is no ImageLoader.  readlif is named in no
\* annotation.
import_image_loader(installed) ==
    IF {"tifffile", "aicspylibczi", "nd2"} \subseteq installed
    THEN Returned([format_name |-> "", package |-> ""])
    ELSE RaisedIn(Exc("NameError", "name is not defined", "image_loader"))

\* ImageLoader._check_format_support (image_loader.py:113-130); installed is
\* the set of the reader packages that could be imported
_check_format_support(suffix, installed) ==
    LET extension == lower(suffix)
    IN  IF import_image_loader(installed).kind = "raised"
        THEN import_image_loader(installed)
        ELSE IF extension \notin DOMAIN supported_formats
        THEN RaisedIn(Exc("UnsupportedFormatError", "Unsupported file format",
                          "_check_format_support"))
        ELSE IF supported_formats[extension].package \notin installed
        THEN RaisedIn(Exc("MissingDependencyError", "Library is required",
                          "_check_format_support"))
        ELSE Returned(supported_formats[extension])

\* ImageLoader.get_metadata (image_loader.py:146-178).  on_disk is what is
\* at the path: "missing", "directory" or "file"; reader is what the format's
\* metadata reader does: "ok" or "raises".
get_metadata(suffix, on_disk, installed, reader) ==
    LET support == _check_format_support(suffix, installed)
    IN  IF import_image_loader(installed).kind = "raised"
        THEN import_image_loader(installed)
        ELSE IF on_disk = "missing"
        THEN RaisedIn(Exc("FileNotFoundError", "File not found", "get_metadata"))
        ELSE IF on_disk = "directory"
        THEN RaisedIn(Exc("ImageLoadError", "Path is not a file", "get_metadata"))
        ELSE IF support.kind = "raised" THEN support
        ELSE IF reader = "raises"
        THEN RaisedIn(Exc("ImageLoadError", "Metadata extraction failed",
                          "get_metadata"))
        ELSE Returned([format |-> support.value.format_name])

Suffixes == {".tif", ".TIF", ".tiff", ".czi", ".CZI", ".nd2", ".lif", ".xyz", ".XYZ", ".png", ""}

Packages == {"tifffile", "aicspylibczi", "nd2", "readlif"}

get_metadata_call ==
    /\ NotCalled
    /\ \E suffix \in Suffixes, on_disk \in {"missing", "directory", "file"},
          installed \in SUBSET Packages, reader \in {"ok", "raises"} :
          /\ call' = [fn |-> "get_metadata", suffix |-> suffix, on_disk |-> on_disk,
                      installed |-> installed, reader |-> reader]
          /\ ret' = get_metadata(suffix, on_disk, installed, reader)
    /\ UNCHANGED <<analyzerVars, deviceVars, apiVars>>

\* C21: get_metadata raises UnsupportedFormatError for a path whose
\* extension is not a supported format, including when no file exists at
\* that path, and raises FileNotFoundError for a missing file whose
\* extension is supported.
C21_UnsupportedFormatBeforeMissingFile ==
    (call.fn = "get_metadata"
        /\ import_image_loader(call.installed).kind = "returned") =>
        /\ lower(call.suffix) \notin DOMAIN supported_formats =>
              (ret.kind = "raised" /\ ret.exc.type = "UnsupportedFormatError")
        /\ (lower(call.suffix) \in DOMAIN supported_formats
              /\ call.on_disk = "missing") =>
              (ret.kind = "raised" /\ ret.exc.type = "FileNotFoundError")

\* --- connectivity of connected_components_3d (kernels.py:407-430) ---

\* Two different voxels that are neighbours in the 26-neighbourhood but share
\* no face: they touch along an edge or at a corner
TouchDiagonally(shape, a, b) ==
    LET ca == Coord(shape, a)
        cb == Coord(shape, b)
    IN  /\ \A i \in 1..3 : Abs(ca[i] - cb[i]) <= 1
        /\ Abs(ca[1] - cb[1]) + Abs(ca[2] - cb[2]) + Abs(ca[3] - cb[3]) >= 2

\* C22: connected_components_3d labels with 26-connectivity: two foreground
\* voxels that touch only along an edge or at a corner receive the same
\* label.
C22_DiagonalNeighboursShareLabel ==
    (call.fn = "connected_components_3d" /\ call.min_size <= 1) =>
        \A a, b \in DOMAIN call.binary_volume.vox :
            (/\ call.binary_volume.vox[a] = 1
             /\ call.binary_volume.vox[b] = 1
             /\ TouchDiagonally(call.binary_volume.shape, a, b)) =>
                ret.value.labeled.vox[a] = ret.value.labeled.vox[b]

\* --- _pad_psf_to_volume (deconvolution.py:212-240) ---

\* padded[pad_z:pad_z + psf.shape[0], pad_y:..., pad_x:...] = psf on zeros
\* (deconvolution.py:222-234), for a PSF that fits into the target shape
place(psf, target_shape, pad) ==
    [shape |-> target_shape,
     vox |-> [k \in Voxels(target_shape) |->
                LET c == Coord(target_shape, k)
                    p == [a \in 1..3 |-> c[a] - pad[a]]
                IN  IF \A a \in 1..3 : p[a] >= 0 /\ p[a] < psf.shape[a]
                    THEN psf.vox[Index(psf.shape, p[1], p[2], p[3])]
                    ELSE 0]]

\* np.roll(volume, shift, axis=(0, 1, 2)): the element at index i moves to
\* index (i + shift) mod n on every axis
roll(volume, shift) ==
    [volume EXCEPT !.vox =
        [k \in Voxels(volume.shape) |->
            LET c == Coord(volume.shape, k)
            IN  volume.vox[Index(volume.shape,
                                 (c[1] - shift[1]) % volume.shape[1],
                                 (c[2] - shift[2]) % volume.shape[2],
                                 (c[3] - shift[3]) % volume.shape[3])]]]

\* _pad_psf_to_volume (deconvolution.py:222-240): the PSF is placed in the
\* centre of a zero array and shifted back by (-pad_z, -pad_y, -pad_x)
_pad_psf_to_volume(psf, target_shape) ==
    LET pad == [a \in 1..3 |-> (target_shape[a] - psf.shape[a]) \div 2]
    IN  roll(place(psf, target_shape, pad), [a \in 1..3 |-> 0 - pad[a]])

\* The position in C order of the centre voxel of an odd-shaped array
Centre(shape) == Index(shape, shape[1] \div 2, shape[2] \div 2, shape[3] \div 2)

\* The PSF of a shape: 2 at the centre voxel, its peak, and 1 elsewhere
PeakedPsf(shape) ==
    [shape |-> shape,
     vox |-> [k \in Voxels(shape) |-> IF k = Centre(shape) THEN 2 ELSE 1]]

\* The odd PSF shapes, and the target shapes they fit into
PsfShapes == {1, 3} \X {1, 3} \X {1, 3}

_pad_psf_to_volume_call ==
    /\ NotCalled
    /\ \E shape \in PsfShapes, target_shape \in Shapes3D(1) :
          /\ \A a \in 1..3 : shape[a] <= target_shape[a]
          /\ call' = [fn |-> "_pad_psf_to_volume", psf |-> PeakedPsf(shape),
                      target_shape |-> target_shape]
          /\ ret' = Returned(_pad_psf_to_volume(PeakedPsf(shape), target_shape))
    /\ UNCHANGED <<analyzerVars, deviceVars, apiVars>>

\* C23: _pad_psf_to_volume returns an array of the volume's shape in which
\* the PSF's peak (its centre voxel) sits at index (0,0,0), for every
\* odd-shaped PSF that is not larger than the volume in any dimension.
C23_PsfPeakAtOrigin ==
    call.fn = "_pad_psf_to_volume" =>
        /\ ret.value.shape = call.target_shape
        /\ ret.value.vox[Index(call.target_shape, 0, 0, 0)] =
              call.psf.vox[Centre(call.psf.shape)]

\* --- thresholds of colocalization_analysis (analysis.py:91-102, 142-175) ---

\* The samples of a sequence that satisfy keep, in order
RECURSIVE Select(_, _)
Select(q, keep) ==
    IF q = <<>> THEN <<>>
    ELSE (IF keep[1] THEN <<q[1]>> ELSE <<>>) \o Select(Tail(q), Tail(keep))

\* The value np.percentile gives for an empty array
NaN == 0 - 1

\* 2 * np.percentile(q, 50): the median with linear interpolation, doubled
percentile50_x2(q) ==
    IF q = <<>> THEN NaN
    ELSE Kth(q, (Len(q) + 1) \div 2) + Kth(q, (Len(q) + 2) \div 2)

\* _costes_threshold (analysis.py:160-175): per channel the median of the
\* strictly positive samples inside the mask, doubled
_costes_threshold(channel1, channel2, mask) ==
    LET inside == [k \in DOMAIN channel1 |-> mask = Missing \/ mask[1][k] # 0]
        ch1_flat == Select(channel1, inside)
        ch2_flat == Select(channel2, inside)
        positive(q) == Select(q, [k \in DOMAIN q |-> q[k] > 0])
    IN  <<percentile50_x2(positive(ch1_flat)), percentile50_x2(positive(ch2_flat))>>

\* The channels as colocalization_analysis passes them on: multiplied by the
\* mask if there is one (analysis.py:63-67)
masked(channel, mask) ==
    IF mask = Missing THEN channel
    ELSE [k \in DOMAIN channel |-> channel[k] * mask[1][k]]

\* The thresholds colocalization_analysis works with and returns
\* (analysis.py:91-102 and 131-132), doubled
colocalization_thresholds(channel1, channel2, mask, threshold_ch1, threshold_ch2) ==
    LET auto == _costes_threshold(masked(channel1, mask), masked(channel2, mask), mask)
    IN  IF threshold_ch1 = Missing \/ threshold_ch2 = Missing
        THEN [threshold_ch1_x2 |-> auto[1], threshold_ch2_x2 |-> auto[2]]
        ELSE [threshold_ch1_x2 |-> 2 * threshold_ch1[1],
              threshold_ch2_x2 |-> 2 * threshold_ch2[1]]

\* Two-voxel channels, and the masks over them
Channels == [1..2 -> 0..MaxIntensity]

Masks == {Missing, Given(<<1, 0>>), Given(<<1, 1>>)}

colocalization_thresholds_call ==
    /\ NotCalled
    /\ \E channel1 \in Channels, channel2 \in Channels, mask \in Masks,
          threshold_ch1 \in {Missing} \cup {Given(t) : t \in 1..MaxIntensity},
          threshold_ch2 \in {Missing} \cup {Given(t) : t \in 1..MaxIntensity} :
          /\ call' = [fn |-> "colocalization_thresholds", channel1 |-> channel1,
                      channel2 |-> channel2, mask |-> mask,
                      threshold_ch1 |-> threshold_ch1,
                      threshold_ch2 |-> threshold_ch2]
          /\ ret' = Returned(colocalization_thresholds(channel1, channel2, mask,
                                                       threshold_ch1, threshold_ch2))
    /\ UNCHANGED <<analyzerVars, deviceVars, apiVars>>

\* C24: in colocalization_analysis a threshold supplied by the caller for
\* one channel is used unchanged for that channel; only a channel whose
\* threshold is unsupplied receives the automatic threshold, the median of
\* the strictly positive intensities.
C24_SuppliedThresholdIsKept ==
    call.fn = "colocalization_thresholds" =>
        LET auto == _costes_threshold(masked(call.channel1, call.mask),
                                      masked(call.channel2, call.mask), call.mask)
        IN  /\ ret.value.threshold_ch1_x2 =
                  IF call.threshold_ch1 = Missing THEN auto[1]
                  ELSE 2 * call.threshold_ch1[1]
            /\ ret.value.threshold_ch2_x2 =
                  IF call.threshold_ch2 = Missing THEN auto[2]
                  ELSE 2 * call.threshold_ch2[1]

\* --- _remove_overlapping_blobs (segmentation.py:232-274) ---

MaxBlobs == 3

MaxSigma == 2

\* A blob is the tuple (z, y, x, sigma).  (z1-z2)**2 + (y1-y2)**2 + (x1-x2)**2
distance_sq(b1, b2) ==
    (b1[1] - b2[1]) * (b1[1] - b2[1]) + (b1[2] - b2[2]) * (b1[2] - b2[2])
        + (b1[3] - b2[3]) * (b1[3] - b2[3])

\* distance < overlap * (s1 + s2) (segmentation.py:271), with overlap in
\* tenths; both sides are non-negative, so the squares compare alike
too_close(b1, b2, overlap10) ==
    100 * distance_sq(b1, b2) <
        overlap10 * overlap10 * (b1[4] + b2[4]) * (b1[4] + b2[4])

\* The blobs with sigma s, then those with the next smaller sigma, and so on
RECURSIVE from_sigma_down(_, _)
from_sigma_down(blobs, s) ==
    IF s < 1 THEN <<>>
    ELSE SelectSeq(blobs, LAMBDA b : b[4] = s) \o from_sigma_down(blobs, s - 1)

\* The candidates in the order they were found
sorted_as_found(blobs) == blobs

\* sorted(blobs, key=lambda b: b[3], reverse=True) (segmentation.py:250): a
\* stable sort by descending sigma
sorted_by_sigma(blobs) == from_sigma_down(blobs, MaxSigma)

\* The loops of segmentation.py:255-272 from i on: a blob i that is still
\* kept clears keep[j] of every later blob j that is too close to it
RECURSIVE suppress(_, _, _, _)
suppress(blobs, overlap10, i, keep) ==
    IF i > Len(blobs) THEN keep
    ELSE suppress(blobs, overlap10, i + 1,
                  IF keep[i]
                  THEN [j \in DOMAIN keep |->
                          keep[j] /\ ~(j > i /\ too_close(blobs[i], blobs[j], overlap10))]
                  ELSE keep)

\* _remove_overlapping_blobs (segmentation.py:246-274)
_remove_overlapping_blobs(blobs0, overlap10) ==
    IF Len(blobs0) = 0 THEN <<>>
    ELSE LET blobs == sorted_by_sigma(blobs0)
             keep == suppress(blobs, overlap10, 1, [i \in DOMAIN blobs |-> TRUE])
             kept == {i \in DOMAIN blobs : keep[i]}
             nth(r) == CHOOSE i \in kept : Cardinality({j \in kept : j <= i}) = r
         IN  [r \in 1..Cardinality(kept) |-> blobs[nth(r)]]

\* The candidates: centres in a 2 x 2 square of one plane, sigma 1..MaxSigma
Candidates == {0} \X (0..1) \X (0..1) \X (1..MaxSigma)

_remove_overlapping_blobs_call ==
    /\ NotCalled
    /\ \E blobs \in {<<>>} \cup SeqsUpTo(Candidates, MaxBlobs),
          overlap10 \in {0, 5, 10} :
          /\ call' = [fn |-> "_remove_overlapping_blobs", blobs |-> blobs,
                      overlap10 |-> overlap10]
          /\ ret' = Returned(_remove_overlapping_blobs(blobs, overlap10))
    /\ UNCHANGED <<analyzerVars, deviceVars, apiVars>>

\* How many times b occurs in the sequence q
Count(q, b) == Cardinality({i \in DOMAIN q : q[i] = b})

\* C25: the result of blob de-duplication contains no two blobs whose centre
\* distance is less than overlap x (sigma1 + sigma2), and every removed
\* candidate lies within that distance of a retained candidate whose sigma
\* is at least as large as its own.
C25_BlobsAreSeparated ==
    call.fn = "_remove_overlapping_blobs" =>
        /\ \A i, j \in DOMAIN ret.value :
              i # j => ~too_close(ret.value[i], ret.value[j], call.overlap10)
        /\ \A b \in Candidates :
              /\ Count(ret.value, b) <= Count(call.blobs, b)
              /\ Count(ret.value, b) < Count(call.blobs, b) =>
                    \E i \in DOMAIN ret.value :
                       /\ too_close(ret.value[i], b, call.overlap10)
                       /\ ret.value[i][4] >= b[4]

\* A small candidate found first and another found last were dropped for
\* the larger one found between them.
C25_Witness ==
    /\ call.fn = "_remove_overlapping_blobs"
    /\ call.blobs = <<<<0, 0, 0, 1>>, <<0, 0, 1, 2>>, <<0, 1, 0, 1>>>>
    /\ call.overlap10 = 5
    /\ ret.value = <<<<0, 0, 1, 2>>>>

\* --- what the functions pass to a progress sink ---
\* A fraction is the pair <<numerator, denominator>>.

\* The sink calls of richardson_lucy_deconvolution (deconvolution.py:54-92):
\* 0.0 before the loop and (iteration + 1) / iterations at the end of every
\* pass of `for iteration in range(iterations)`
richardson_lucy_reports(iterations) ==
    <<<<0, 1>>>> \o [k \in 1..iterations |-> <<k, iterations>>]

\* The sink calls of the loop of object_measurements from obj_id on
\* (analysis.py:283-367): an object without voxels is skipped before the
\* report; the others report obj_id / num_objects when
\* obj_id % max(1, num_objects // 10) == 0
RECURSIVE measure_reports(_, _, _)
measure_reports(present, num_objects, obj_id) ==
    LET every == IF num_objects \div 10 > 1 THEN num_objects \div 10 ELSE 1
    IN  IF obj_id > num_objects THEN <<>>
        ELSE (IF obj_id \in present /\ obj_id % every = 0
              THEN <<<<obj_id, num_objects>>>> ELSE <<>>)
             \o measure_reports(present, num_objects, obj_id + 1)

\* The sink calls of object_measurements (analysis.py:271-370); present is
\* the set of the labels that have a voxel, num_objects is labels.max()
object_measurements_reports(present, num_objects) ==
    <<<<0, 1>>>> \o measure_reports(present, num_objects, 1) \o <<<<1, 1>>>>

\* The sink calls of the functions that report fixed fractions between
\* their stages, in hundredths: gaussian_blur_3d (kernels.py:91-120),
\* sobel_3d (199-242), otsu_threshold (297-376), connected_components_3d
\* (401-428), rolling_ball_background (453-492), threshold_segmentation
\* (segmentation.py:301-342), watershed_segmentation_3d (54-82),
\* UNet3D.forward (402-423), colocalization_analysis (analysis.py:55-125),
\* z_profile_analysis (396-457), intensity_statistics (196-242: a
\* successful call has no labels or no labelled voxel, and reports at its
\* start and its end) and wiener_deconvolution (deconvolution.py:146-205)
staged_reports ==
    [gaussian_blur_3d |-> <<0, 33, 66, 100>>,
     sobel_3d |-> <<0, 33, 66, 85, 100>>,
     otsu_threshold |-> <<0, 20, 50, 80, 100>>,
     connected_components_3d |-> <<0, 70, 100>>,
     rolling_ball_background |-> <<0, 20, 60, 80, 100>>,
     threshold_segmentation |-> <<0, 30, 50, 80, 100>>,
     watershed_segmentation_3d |-> <<0, 20, 50, 100>>,
     UNet3D_forward |-> <<0, 50, 100>>,
     colocalization_analysis |-> <<0, 20, 50, 70, 85, 100>>,
     z_profile_analysis |-> <<0, 50, 100>>,
     intensity_statistics |-> <<0, 100>>,
     wiener_deconvolution |-> <<0, 20, 50, 70, 90, 100>>]

\* The sink calls of generate_psf (deconvolution.py:270-346, 375-431), in
\* hundredths: 0.0, then those of _generate_gaussian_psf or of
\* _generate_airy_psf, which "gibson-lanni" uses too
generate_psf_reports(psf_type) ==
    IF psf_type = "gaussian" THEN <<0, 30, 60, 100>>
    ELSE <<0, 20, 50, 70, 90, 100>>

\* The sink calls of blob_detection_3d (segmentation.py:146-204):
\* (i + 1) / num_sigma * 0.8 after scale i, then 0.85, 0.95 and 1.0
blob_detection_3d_reports(num_sigma) ==
    <<<<0, 1>>>> \o [k \in 1..num_sigma |-> <<8 * k, 10 * num_sigma>>]
       \o <<<<85, 100>>, <<95, 100>>, <<1, 1>>>>

\* The sink calls of the bead loop of estimate_psf_from_beads
\* (deconvolution.py:483-498) from bead i on: 0.3 + 0.6 * i / len(beads)
\* when i % max(1, len(beads) // 10) == 0
RECURSIVE bead_reports(_, _)
bead_reports(beads, i) ==
    LET every == IF beads \div 10 > 1 THEN beads \div 10 ELSE 1
    IN  IF i >= beads THEN <<>>
        ELSE (IF i % every = 0 THEN <<<<3 * beads + 6 * i, 10 * beads>>>> ELSE <<>>)
             \o bead_reports(beads, i + 1)

\* The sink calls of estimate_psf_from_beads (deconvolution.py:458-508) for
\* `beads` bead coordinates, one of them at least away from the edges
estimate_psf_from_beads_reports(beads) ==
    <<<<0, 1>>, <<3, 10>>>> \o bead_reports(beads, 0) \o <<<<1, 1>>>>

\* The numbers of scales and of beads of the calls
ScaleCounts == {1, 2, 3, 10}

BeadCounts == {1, 2, 3, 20, 25}

\* The label counts of the measured volumes, and the labels with voxels
ObjectCounts == {0, 1, 2, 3, 20, 25}

PresentLabels(num_objects) ==
    IF num_objects = 0 THEN {{}}
    ELSE {1..num_objects, {num_objects},
          {l \in 1..num_objects : l % 2 = 1 \/ l = num_objects},
          {l \in 1..num_objects : l % 3 # 0 \/ l = num_objects}}

MaxReportIterations == 4

\* One successful call with a progress sink: ret is what the sink received
progress_call ==
    /\ NotCalled
    /\ \/ \E iterations \in 0..MaxReportIterations :
             /\ call' = [fn |-> "progress", of |-> "richardson_lucy_deconvolution",
                         iterations |-> iterations]
             /\ ret' = Returned(richardson_lucy_reports(iterations))
       \/ \E num_objects \in ObjectCounts :
          \E present \in PresentLabels(num_objects) :
             /\ call' = [fn |-> "progress", of |-> "object_measurements",
                         num_objects |-> num_objects, present |-> present]
             /\ ret' = Returned(object_measurements_reports(present, num_objects))
       \/ \E f \in DOMAIN staged_reports :
             /\ call' = [fn |-> "progress", of |-> f]
             /\ ret' = Returned([i \in DOMAIN staged_reports[f] |->
                                   <<staged_reports[f][i], 100>>])
       \/ \E psf_type \in {"gaussian", "airy", "gibson-lanni"} :
             /\ call' = [fn |-> "progress", of |-> "generate_psf",
                         psf_type |-> psf_type]
             /\ ret' = Returned([i \in DOMAIN generate_psf_reports(psf_type) |->
                                   <<generate_psf_reports(psf_type)[i], 100>>])
       \/ \E num_sigma \in ScaleCounts :
             /\ call' = [fn |-> "progress", of |-> "blob_detection_3d",
                         num_sigma |-> num_sigma]
             /\ ret' = Returned(blob_detection_3d_reports(num_sigma))
       \/ \E beads \in BeadCounts :
             /\ call' = [fn |-> "progress", of |-> "estimate_psf_from_beads",
                         beads |-> beads]
             /\ ret' = Returned(estimate_psf_from_beads_reports(beads))
    /\ UNCHANGED <<analyzerVars, deviceVars, apiVars>>

\* a / b <= c / d for fractions with positive denominators
FracLeq(p, q) == p[1] * q[2] <= q[1] * p[2]

\* C26: for every kernel and algorithm function that accepts a progress
\* sink, the fractions passed to the sink during one successful call lie in
\* [0,1], are non-decreasing, start at 0.0 and end at 1.0; Richardson-Lucy
\* reports exactly once after each iteration, with fraction k/iterations
\* after iteration k.
C26_ProgressFractionsRunFromZeroToOne ==
    call.fn = "progress" =>
        LET sent == ret.value
        IN  /\ \A i \in DOMAIN sent :
                  FracLeq(<<0, 1>>, sent[i]) /\ FracLeq(sent[i], <<1, 1>>)
            /\ \A i \in DOMAIN sent : i > 1 => FracLeq(sent[i - 1], sent[i])
            /\ FracLeq(sent[1], <<0, 1>>)
            /\ FracLeq(<<1, 1>>, sent[Len(sent)])
            /\ call.of = "richardson_lucy_deconvolution" =>
                  /\ Len(sent) = call.iterations + 1
                  /\ \A k \in 1..call.iterations : sent[k + 1] = <<k, call.iterations>>

\* --- compute_photobleaching_correction (analysis.py:462-501) ---

MaxProfile == 3

\* scipy.optimize.curve_fit of the two-parameter decay (analysis.py:488): it
\* raises TypeError when the profile has fewer entries than parameters, and
\* RuntimeError when the least-squares iteration does not converge, which
\* `converges` stands for
curve_fit(z_profile, converges) ==
    IF Len(z_profile) < 2
    THEN RaisedIn(Exc("TypeError", "func parameters must not exceed data points",
                      "curve_fit"))
    ELSE IF ~converges
    THEN RaisedIn(Exc("RuntimeError", "Optimal parameters not found", "curve_fit"))
    ELSE Returned([I0 |-> "I0", lamb |-> "lamb"])

\* np.polyfit(z_values, mean_values, 1) (analysis.py:497).  polyfit divides
\* each column of the Vandermonde matrix by its norm before it calls lstsq.
\* For the profile of one slice z_values is [0], the column of z is [0], its
\* norm is 0 and the column becomes [nan]: the LAPACK routine behind lstsq
\* then either reports that the SVD did not converge, which numpy raises as
\* LinAlgError, or returns coefficients that are nan; which of the two
\* depends on the LAPACK build, and `lapack_fails` stands for it.  With two
\* or more slices the z column has a positive norm and the fit is returned.
polyfit(z_profile, lapack_fails) ==
    IF Len(z_profile) >= 2
    THEN Returned([coeffs |-> "fit"])
    ELSE IF lapack_fails
    THEN RaisedIn(Exc("LinAlgError", "SVD did not converge in Linear Least Squares",
                      "polyfit"))
    ELSE Returned([coeffs |-> "nan"])

\* The correction arrays: one factor per entry of the profile, named by the
\* fit it comes from and the z it is for.  exp(lamb * z) / I0 (line 490) and
\* mean_values[0] / polyval(coeffs, z) (lines 498-499), whose factors are nan
\* when the coefficients are
exponential_correction(z_profile) ==
    [i \in DOMAIN z_profile |-> [fit |-> "exponential", z |-> z_profile[i].z]]

linear_correction(z_profile, coeffs) ==
    [i \in DOMAIN z_profile |->
        [fit |-> IF coeffs = "nan" THEN "linear, nan" ELSE "linear",
         z |-> z_profile[i].z]]

\* The linear branch (analysis.py:495-499): the exception of polyfit is not
\* caught
linear_branch(z_profile, lapack_fails) ==
    LET fit == polyfit(z_profile, lapack_fails)
    IN  IF fit.kind = "raised"
        THEN fit
        ELSE Returned(linear_correction(z_profile, fit.value.coeffs))

\* compute_photobleaching_correction for a profile with at least one entry.
\* The bare except of line 491 catches whatever the try block raises and
\* sets method to "linear", so the linear branch of line 495 runs next; a
\* method that is neither name reaches `return correction` with the name
\* unbound.
compute_photobleaching_correction(z_profile, method, converges, lapack_fails) ==
    CASE method = "exponential" ->
            IF curve_fit(z_profile, converges).kind = "raised"
            THEN linear_branch(z_profile, lapack_fails)
            ELSE Returned(exponential_correction(z_profile))
      [] method = "linear" -> linear_branch(z_profile, lapack_fails)
      [] OTHER -> RaisedIn(Exc("UnboundLocalError", "correction",
                               "compute_photobleaching_correction"))

\* The profiles z_profile_analysis gives: one entry per slice, z = 0, 1, ...
ZProfiles ==
    {[i \in DOMAIN q |-> [z |-> i - 1, mean |-> q[i]]] :
        q \in SeqsUpTo(0..MaxIntensity, MaxProfile)}

compute_photobleaching_correction_call ==
    /\ NotCalled
    /\ \E z_profile \in ZProfiles, method \in {"exponential", "linear", "quadratic"},
          converges \in BOOLEAN, lapack_fails \in BOOLEAN :
          /\ call' = [fn |-> "compute_photobleaching_correction",
                      z_profile |-> z_profile, method |-> method,
                      converges |-> converges, lapack_fails |-> lapack_fails]
          /\ ret' = compute_photobleaching_correction(z_profile, method, converges,
                                                      lapack_fails)
    /\ UNCHANGED <<analyzerVars, deviceVars, apiVars>>

\* C27: compute_photobleaching_correction called with method 'exponential'
\* returns the linear-fit correction whenever the exponential fit fails, and
\* never propagates the fit failure to its caller; for every accepted method
\* it returns a correction array with one factor per profile entry.
C27_ExponentialFallsBackToLinear ==
    call.fn = "compute_photobleaching_correction" =>
        /\ (/\ call.method = "exponential"
            /\ curve_fit(call.z_profile, call.converges).kind = "raised") =>
              /\ ret.kind = "returned"
              /\ \A i \in DOMAIN ret.value :
                    ret.value[i].fit \in {"linear", "linear, nan"}
        /\ call.method \in {"exponential", "linear"} =>
              /\ ret.kind = "returned"
              /\ Len(ret.value) = Len(call.z_profile)
              /\ \A i \in DOMAIN ret.value : ret.value[i].z = call.z_profile[i].z

NextFunctions ==
    \/ get_metadata_call
    \/ _pad_psf_to_volume_call
    \/ colocalization_thresholds_call
    \/ _remove_overlapping_blobs_call
    \/ progress_call
    \/ compute_photobleaching_correction_call

SpecFunctions == InitDevice /\ [][NextFunctions]_vars

-----------------------------------------------------------------------------
(* ConnectionManager (src/api/websocket/manager.py).  Its methods are       *)
(* coroutines on one event loop: a coroutine runs without interruption from *)
(* one suspension to the next, so every action below is the code between    *)
(* two suspensions.  The suspensions are `await websocket.accept()`, the    *)
(* `await websocket.send_json(...)` inside _send_to_client and the sleep of *)
(* the heartbeat loop; `await self.disconnect(...)` does not suspend,       *)
(* because disconnect awaits nothing.                                       *)

MaxClients == 2

MaxOps == 3

MaxBeats == 1

ClientIds == 1..MaxClients

\* The session_id arguments: no session and a session name
SessionArgs == {None, "s1"}

\* `if session_id:`
IsSession(session_id) == session_id \notin {None, ""}

\* The four registries as one value
Registries ==
    [active_connections |-> active_connections, sessions |-> sessions,
     connection_metadata |-> connection_metadata, heartbeat_tasks |-> heartbeat_tasks]

\* d with key k removed (del d[k])
Without(d, k) == [j \in DOMAIN d \ {k} |-> d[j]]

\* d with d[k] = v
With(d, k, v) == [j \in DOMAIN d \cup {k} |-> IF j = k THEN v ELSE d[j]]

\* A disconnect that leaves an emptied session in place
disconnect_keeps_empty_session(m, client_id) ==
    IF client_id \notin m.active_connections THEN m
    ELSE LET session_id == m.connection_metadata[client_id].session_id
         IN  [active_connections |-> m.active_connections \ {client_id},
              sessions |->
                 IF IsSession(session_id) /\ session_id \in DOMAIN m.sessions
                 THEN With(m.sessions, session_id, m.sessions[session_id] \ {client_id})
                 ELSE m.sessions,
              connection_metadata |-> Without(m.connection_metadata, client_id),
              heartbeat_tasks |-> Without(m.heartbeat_tasks, client_id)]

\* ConnectionManager.disconnect (manager.py:82-105) on the registries m
disconnect(m, client_id) ==
    IF client_id \notin m.active_connections THEN m
    ELSE LET metadata == IF client_id \in DOMAIN m.connection_metadata
                         THEN m.connection_metadata[client_id]
                         ELSE [session_id |-> None, message_count |-> 0]
             session_id == metadata.session_id
         IN  [active_connections |-> m.active_connections \ {client_id},
              sessions |->
                 IF IsSession(session_id) /\ session_id \in DOMAIN m.sessions
                 THEN IF m.sessions[session_id] \ {client_id} = {}
                      THEN Without(m.sessions, session_id)
                      ELSE With(m.sessions, session_id,
                                m.sessions[session_id] \ {client_id})
                 ELSE m.sessions,
              connection_metadata |-> Without(m.connection_metadata, client_id),
              heartbeat_tasks |-> Without(m.heartbeat_tasks, client_id)]

\* `for client_id in disconnected_clients: await self.disconnect(client_id)`
RECURSIVE disconnect_all(_, _)
disconnect_all(m, clients) ==
    IF clients = {} THEN m
    ELSE LET c == CHOOSE c \in clients : TRUE
         IN  disconnect_all(disconnect(m, c), clients \ {c})

\* A coroutine of the manager.  kind is the method; pc is "accept" while
\* connect awaits websocket.accept(), "sending" while the coroutine awaits
\* the send_json to the client `sending`, and "done" or "raised" at its end.
\* remaining are the targets the loop of a broadcast has still to visit,
\* failed is disconnected_clients; targets and removed record for the
\* properties whom the coroutine aimed at and whom its clean-up removed.
NewOp(kind, session_id) ==
    [kind |-> kind, pc |-> "done", session_id |-> session_id, client_id |-> 0,
     event |-> "", targets |-> {}, remaining |-> <<>>, exclude |-> {},
     failed |-> {}, sending |-> 0, removed |-> {}]

\* A loop that gives up at its first failed send
RECURSIVE run_loop_stops_at_failure(_, _)
run_loop_stops_at_failure(m, op) ==
    IF op.remaining = <<>> \/ op.failed # {}
    THEN [m |-> disconnect_all(m, op.failed),
          op |-> [op EXCEPT !.pc = "done",
                            !.removed = op.failed \cap m.active_connections]]
    ELSE LET client_id == Head(op.remaining)
             rest == [op EXCEPT !.remaining = Tail(op.remaining)]
         IN  IF client_id \in op.exclude THEN run_loop_stops_at_failure(m, rest)
             ELSE IF client_id \notin m.active_connections
             THEN run_loop_stops_at_failure(m, [rest EXCEPT !.failed = op.failed \cup {client_id}])
             ELSE [m |-> m, op |-> [rest EXCEPT !.pc = "sending", !.sending = client_id]]

\* The registries and the coroutine after the loop of broadcast or
\* send_to_session (manager.py:112-120, 129-136) has run from its next
\* target to its next suspension.  A target in exclude is passed over; for a
\* target that is no longer in active_connections _send_to_client returns
\* False at once (line 144-145); any other target is sent to, which
\* suspends.  After the last target the clean-up loop runs.
RECURSIVE run_loop(_, _)
run_loop(m, op) ==
    IF op.remaining = <<>>
    THEN [m |-> disconnect_all(m, op.failed),
          op |-> [op EXCEPT !.pc = "done",
                            !.removed = op.failed \cap m.active_connections]]
    ELSE LET client_id == Head(op.remaining)
             rest == [op EXCEPT !.remaining = Tail(op.remaining)]
         IN  IF client_id \in op.exclude THEN run_loop(m, rest)
             ELSE IF client_id \notin m.active_connections
             THEN run_loop(m, [rest EXCEPT !.failed = op.failed \cup {client_id}])
             ELSE [m |-> m, op |-> [rest EXCEPT !.pc = "sending", !.sending = client_id]]

\* The orders in which a loop can visit the clients of S
Orders(S) ==
    {q \in [1..Cardinality(S) -> S] : \A i, j \in DOMAIN q : i # j => q[i] # q[j]}

\* list(self.active_connections.keys()): the keys in insertion order, which
\* is the order of the client ids
InsertionOrder(S) == CHOOSE q \in Orders(S) : \A i, j \in DOMAIN q : i < j => q[i] < q[j]

SetRegistries(m) ==
    /\ active_connections' = m.active_connections
    /\ sessions' = m.sessions
    /\ connection_metadata' = m.connection_metadata
    /\ heartbeat_tasks' = m.heartbeat_tasks

\* connect is called: the coroutine awaits websocket.accept() (line 42)
connect_call ==
    /\ Len(ops) < MaxOps
    /\ Cardinality({o \in DOMAIN ops : ops[o].kind = "connect"}) < MaxClients
    /\ \E session_id \in SessionArgs :
          ops' = Append(ops, [NewOp("connect", session_id) EXCEPT !.pc = "accept"])
    /\ UNCHANGED <<active_connections, sessions, connection_metadata, heartbeat_tasks,
                   uuids, inbox, runVars, analyzerVars, deviceVars, kernelVars>>

\* accept returns or raises.  After it connect registers the client under a
\* new id in all registries (lines 44-65) and starts to send the
\* acknowledgment (line 72), which suspends it.
connect_accept(o) ==
    /\ ops[o].kind = "connect" /\ ops[o].pc = "accept"
    /\ \E accepted \in BOOLEAN :
          IF ~accepted
          THEN /\ ops' = [ops EXCEPT ![o].pc = "raised"]
               /\ UNCHANGED <<active_connections, sessions, connection_metadata,
                              heartbeat_tasks, uuids, inbox>>
          ELSE LET client_id == uuids + 1
                   session_id == ops[o].session_id
               IN  /\ uuids' = client_id
                   /\ active_connections' = active_connections \cup {client_id}
                   /\ sessions' =
                         IF IsSession(session_id)
                         THEN With(sessions, session_id,
                                   (IF session_id \in DOMAIN sessions
                                    THEN sessions[session_id] ELSE {})
                                      \cup {client_id})
                         ELSE sessions
                   /\ connection_metadata' =
                         With(connection_metadata, client_id,
                              [session_id |-> session_id, message_count |-> 0])
                   /\ heartbeat_tasks' = With(heartbeat_tasks, client_id, "sleeping")
                   /\ inbox' = Append(inbox, <<>>)
                   /\ ops' = [ops EXCEPT ![o].pc = "sending", ![o].client_id = client_id,
                                         ![o].sending = client_id,
                                         ![o].event = "connection_ack"]
    /\ UNCHANGED <<runVars, analyzerVars, deviceVars, kernelVars>>

\* broadcast is called (lines 107-120): the loop runs to its first send
broadcast_call ==
    /\ Len(ops) < MaxOps
    /\ \E exclude \in {{}, {1}} :
          LET op == [NewOp("broadcast", None) EXCEPT
                        !.event = "event", !.exclude = exclude,
                        !.targets = active_connections \ exclude,
                        !.remaining = InsertionOrder(active_connections)]
              after == run_loop(Registries, op)
          IN  /\ SetRegistries(after.m)
              /\ ops' = Append(ops, after.op)
    /\ UNCHANGED <<uuids, inbox, runVars, analyzerVars, deviceVars, kernelVars>>

\* send_to_session is called (lines 122-136): it returns at once for a
\* session without clients; otherwise the loop over a copy of the session's
\* set, in whatever order the set gives, runs to its first send
send_to_session_call ==
    /\ Len(ops) < MaxOps
    /\ \E session_id \in {"s1"} :
          IF session_id \notin DOMAIN sessions
          THEN /\ ops' = Append(ops, [NewOp("send_to_session", session_id)
                                         EXCEPT !.event = "event"])
               /\ UNCHANGED <<active_connections, sessions, connection_metadata,
                              heartbeat_tasks>>
          ELSE \E order \in Orders(sessions[session_id]) :
                  LET op == [NewOp("send_to_session", session_id) EXCEPT
                                !.event = "event", !.targets = sessions[session_id],
                                !.remaining = order]
                      after == run_loop(Registries, op)
                  IN  /\ SetRegistries(after.m)
                      /\ ops' = Append(ops, after.op)
    /\ UNCHANGED <<uuids, inbox, runVars, analyzerVars, deviceVars, kernelVars>>

\* send_to_client is called (lines 138-145): _send_to_client returns False
\* at once for a client that is not active, and sends otherwise
send_to_client_call ==
    /\ Len(ops) < MaxOps
    /\ \E client_id \in ClientIds :
          ops' = Append(ops, [NewOp("send_to_client", None) EXCEPT
                                !.event = "event", !.client_id = client_id,
                                !.targets = {client_id},
                                !.pc = IF client_id \in active_connections
                                       THEN "sending" ELSE "done",
                                !.sending = IF client_id \in active_connections
                                            THEN client_id ELSE 0,
                                !.failed = {client_id} \ active_connections])
    /\ UNCHANGED <<active_connections, sessions, connection_metadata, heartbeat_tasks,
                   uuids, inbox, runVars, analyzerVars, deviceVars, kernelVars>>

\* connection_metadata after _send_to_client has sent to client_id (lines
\* 156-157)
counted(client_id) ==
    IF client_id \in DOMAIN connection_metadata
    THEN [connection_metadata EXCEPT ![client_id].message_count = @ + 1]
    ELSE connection_metadata

\* The send_json a coroutine waits for returns or raises (lines 150-165).
\* _send_to_client returns True or False; connect then returns the client
\* id, send_to_client returns the flag and leaves the client registered, and
\* a loop notes the failure and runs on to its next suspension.
send_returns(o) ==
    /\ ops[o].pc = "sending"
    /\ \E success \in BOOLEAN :
          LET client_id == ops[o].sending
              metadata == IF success THEN counted(client_id) ELSE connection_metadata
              m == [Registries EXCEPT !.connection_metadata = metadata]
              op == [ops[o] EXCEPT !.sending = 0,
                                   !.failed = IF success THEN @ ELSE @ \cup {client_id}]
              after == CASE op.kind = "connect" ->
                               [m |-> m, op |-> [op EXCEPT !.pc = "done", !.failed = {}]]
                         [] op.kind = "send_to_client" ->
                               [m |-> m, op |-> [op EXCEPT !.pc = "done"]]
                         [] OTHER -> run_loop(m, op)
          IN  /\ inbox' = IF success
                          THEN [inbox EXCEPT ![client_id] =
                                   Append(@, [event_type |-> op.event, op |-> o])]
                          ELSE inbox
              /\ SetRegistries(after.m)
              /\ ops' = [ops EXCEPT ![o] = after.op]
    /\ UNCHANGED <<uuids, runVars, analyzerVars, deviceVars, kernelVars>>

\* The heartbeats sent so far and in flight
Beats ==
    SumOver([c \in DOMAIN inbox |->
                Cardinality({i \in DOMAIN inbox[c] :
                                inbox[c][i].event_type = "heartbeat"})],
            DOMAIN inbox)
       + Cardinality({c \in DOMAIN heartbeat_tasks : heartbeat_tasks[c] = "sending"})

\* _heartbeat_loop wakes from its sleep and, its client still being active,
\* starts to send a heartbeat (lines 170-177)
heartbeat_wakes(client_id) ==
    /\ client_id \in DOMAIN heartbeat_tasks
    /\ heartbeat_tasks[client_id] = "sleeping"
    /\ Beats < MaxBeats
    /\ heartbeat_tasks' =
          [heartbeat_tasks EXCEPT ![client_id] =
              IF client_id \in active_connections THEN "sending" ELSE "finished"]
    /\ UNCHANGED <<active_connections, sessions, connection_metadata, uuids, ops,
                   inbox, runVars, analyzerVars, deviceVars, kernelVars>>

\* The send of the heartbeat returns or raises (lines 177-182): on success
\* the loop notes the time and sleeps again, on failure it ends.  The task
\* stays in heartbeat_tasks either way.
heartbeat_sent(client_id) ==
    /\ client_id \in DOMAIN heartbeat_tasks
    /\ heartbeat_tasks[client_id] = "sending"
    /\ \E success \in BOOLEAN :
          /\ inbox' = IF success
                      THEN [inbox EXCEPT ![client_id] =
                               Append(@, [event_type |-> "heartbeat", op |-> 0])]
                      ELSE inbox
          /\ connection_metadata' =
                IF success THEN counted(client_id) ELSE connection_metadata
          /\ heartbeat_tasks' =
                [heartbeat_tasks EXCEPT ![client_id] =
                    IF success THEN "sleeping" ELSE "finished"]
    /\ UNCHANGED <<active_connections, sessions, uuids, ops, runVars, analyzerVars,
                   deviceVars, kernelVars>>

\* disconnect is called for a client id, registered or not
disconnect_call(client_id) ==
    /\ client_id \in 1..uuids
    /\ SetRegistries(disconnect(Registries, client_id))
    /\ UNCHANGED <<uuids, ops, inbox, runVars, analyzerVars, deviceVars, kernelVars>>

\* cleanup_stale_connections (lines 213-227): stale are the clients whose
\* last heartbeat is older than the timeout
cleanup_stale_connections ==
    /\ \E stale \in SUBSET DOMAIN connection_metadata :
          /\ stale # {}
          /\ SetRegistries(disconnect_all(Registries, stale))
    /\ UNCHANGED <<uuids, ops, inbox, runVars, analyzerVars, deviceVars, kernelVars>>

NextManager ==
    \/ connect_call
    \/ \E o \in DOMAIN ops : connect_accept(o)
    \/ broadcast_call
    \/ send_to_session_call
    \/ send_to_client_call
    \/ \E o \in DOMAIN ops : send_returns(o)
    \/ \E client_id \in ClientIds : heartbeat_wakes(client_id)
    \/ \E client_id \in ClientIds : heartbeat_sent(client_id)
    \/ \E client_id \in ClientIds : disconnect_call(client_id)
    \/ cleanup_stale_connections

SpecManager == InitDevice /\ [][NextManager]_vars

\* C28: at every point where control can pass to another coroutine, after
\* any interleaving of connect, disconnect, broadcast, send_to_session and
\* cleanup_stale_connections, active_connections, connection_metadata and
\* heartbeat_tasks hold the same set of client ids, every client id listed
\* under a session is an active connection whose metadata names that
\* session, and no session has an empty client set.
C28_RegistriesAgree ==
    /\ DOMAIN connection_metadata = active_connections
    /\ DOMAIN heartbeat_tasks = active_connections
    /\ \A session_id \in DOMAIN sessions :
          /\ sessions[session_id] # {}
          /\ \A client_id \in sessions[session_id] :
                /\ client_id \in active_connections
                /\ connection_metadata[client_id].session_id = session_id

\* A broadcast is suspended in a send while another coroutine has removed
\* one of two session members, and the session lives on with the other.
C28_Witness ==
    /\ \E o \in DOMAIN ops : ops[o].kind = "broadcast" /\ ops[o].pc = "sending"
    /\ uuids = 2
    /\ "s1" \in DOMAIN sessions
    /\ Cardinality(active_connections) = 1
    /\ inbox[1] # <<>>


\* How many copies of the event of coroutine o the websocket of client_id
\* has received
Copies(client_id, o) ==
    Cardinality({i \in DOMAIN inbox[client_id] : inbox[client_id][i].op = o})

Delivering(o) == ops[o].kind \in {"broadcast", "send_to_session"}

\* C30: when broadcast or send_to_session fails to deliver an event to some
\* of the targeted clients, every other targeted client still receives that
\* event exactly once, and exactly the clients whose send failed are
\* disconnected and removed from all registries; a second disconnect of an
\* already removed client changes nothing.
C30_FailedSendsOnlyDropFailedClients ==
    /\ \A o \in DOMAIN ops :
          Delivering(o) /\ ops[o].pc = "done" =>
             /\ \A client_id \in ops[o].targets \ ops[o].failed :
                   Copies(client_id, o) = 1
             /\ \A client_id \in ops[o].failed :
                   /\ Copies(client_id, o) = 0
                   /\ client_id \notin active_connections
                   /\ client_id \notin DOMAIN connection_metadata
                   /\ client_id \notin DOMAIN heartbeat_tasks
                   /\ \A session_id \in DOMAIN sessions :
                         client_id \notin sessions[session_id]
             /\ ops[o].removed \subseteq ops[o].failed
    /\ \A client_id \in ClientIds \ active_connections :
          disconnect(Registries, client_id) = Registries

\* A broadcast to two clients has ended with one send failed and the other
\* delivered, and its clean-up removed the failed client.
C30_Witness ==
    \E o \in DOMAIN ops :
       /\ ops[o].kind = "broadcast" /\ ops[o].pc = "done"
       /\ Cardinality(ops[o].targets) = 2
       /\ Cardinality(ops[o].failed) = 1
       /\ ops[o].removed = ops[o].failed
       /\ \E client_id \in ops[o].targets \ ops[o].failed : Copies(client_id, o) = 1

-----------------------------------------------------------------------------
(* analyze_image and run_analysis (src/api/routes/analysis.py).  The run is *)
(* one coroutine; its steps are the calls it awaits.  A call on the         *)
(* database session (execute, flush, commit) returns or raises; the         *)
(* manager's broadcast and send_to_session never raise, because             *)
(* _send_to_client catches every exception.  processing_status is the       *)
(* value stored in the database: an assignment to the attribute reaches it  *)
(* when the commit after it returns.  emitted are the events handed to the  *)
(* connection manager, in order.                                            *)

MaxProgress == 3

\* confidence_score of the envelope, in tenths: absent, 0.0, 0.5 and 0.9
Confidences == {Missing, Given(0), Given(5), Given(9)}

\* `if session_id: send_to_session(session_id, event) else: broadcast(event)`
Emit(event_type) ==
    Append(emitted, [event_type |-> event_type, session_id |-> run.session_id,
                     sent_by |-> IF IsSession(run.session_id)
                                 THEN "send_to_session" ELSE "broadcast"])

\* `if confidence and confidence < 0.7` (line 166)
NeedsValidation(confidence) ==
    confidence # Missing /\ confidence[1] # 0 /\ confidence[1] < 7

\* analyze_image (lines 35-71): the image is found, its status is set to
\* "processing" and committed, and run_analysis is scheduled; the request
\* fails when the session raises.  run_analysis gets no session_id from
\* this route; a direct call may name one.
analyze_image_call ==
    /\ run.pc = "idle"
    /\ \E ok \in BOOLEAN, session_id \in SessionArgs :
          IF ok
          THEN /\ processing_status' = "processing"
               /\ run' = [run EXCEPT !.pc = "scheduled", !.session_id = session_id]
          ELSE /\ run' = [run EXCEPT !.pc = "rejected"]
               /\ UNCHANGED processing_status
    /\ UNCHANGED <<emitted, managerVars, analyzerVars, deviceVars, kernelVars>>

\* run_analysis starts (lines 81-104): the select raises, or finds no image
\* and the run returns, or finds it; then ProcessingStarted is built and
\* emitted, or building it raises (parameters is None when the request
\* carried none, and the event's field is a Dict), which the except block
\* catches with a session that has raised nothing
run_analysis_start ==
    /\ run.pc = "scheduled"
    /\ \E ending \in {"found", "absent", "select_raises", "event_raises"} :
          CASE ending = "select_raises" ->
                  /\ run' = [run EXCEPT !.pc = "handler", !.needs_rollback = TRUE]
                  /\ UNCHANGED emitted
            [] ending = "event_raises" ->
                  /\ run' = [run EXCEPT !.pc = "handler"]
                  /\ UNCHANGED emitted
            [] ending = "absent" ->
                  /\ run' = [run EXCEPT !.pc = "ended", !.image = FALSE]
                  /\ UNCHANGED emitted
            [] ending = "found" ->
                  /\ run' = [run EXCEPT !.pc = "analyzing"]
                  /\ emitted' = Emit("processing_started")
    /\ UNCHANGED <<processing_status, managerVars, analyzerVars, deviceVars, kernelVars>>

Progressed == Cardinality({i \in DOMAIN emitted :
                              emitted[i].event_type = "processing_progress"})

\* The analyzer calls progress_callback (lines 107-119)
progress_callback_call ==
    /\ run.pc = "analyzing"
    /\ Progressed < MaxProgress
    /\ emitted' = Emit("processing_progress")
    /\ UNCHANGED <<run, processing_status, managerVars, analyzerVars, deviceVars,
                   kernelVars>>

\* analyzer.analyze raises (line 123), which is how every call of it ends
\* while its kernels report progress from the executor thread
analyze_raises ==
    /\ run.pc = "analyzing"
    /\ run' = [run EXCEPT !.pc = "handler"]
    /\ UNCHANGED <<processing_status, emitted, managerVars, analyzerVars, deviceVars,
                   kernelVars>>

\* analyzer.analyze returns an envelope (line 123)
analyze_returns ==
    /\ run.pc = "analyzing"
    /\ \E confidence \in Confidences :
          run' = [run EXCEPT !.pc = "saving", !.confidence = confidence]
    /\ UNCHANGED <<processing_status, emitted, managerVars, analyzerVars, deviceVars,
                   kernelVars>>

\* The result is saved (lines 130-162): flush or commit raises, which leaves
\* the session in need of a rollback; or the status "completed" is
\* committed and ProcessingComplete is handed to the manager, whose sends
\* the run then awaits.
save_result ==
    /\ run.pc = "saving"
    /\ \E ending \in {"saved", "flush_raises", "commit_raises"} :
          IF ending = "saved"
          THEN /\ processing_status' = "completed"
               /\ run' = [run EXCEPT !.pc = IF NeedsValidation(run.confidence)
                                            THEN "validation" ELSE "ended"]
               /\ emitted' = Emit("processing_complete")
          ELSE /\ run' = [run EXCEPT !.pc = "handler", !.needs_rollback = TRUE]
               /\ UNCHANGED <<processing_status, emitted>>
    /\ UNCHANGED <<managerVars, analyzerVars, deviceVars, kernelVars>>

\* For a low confidence ValidationRequired is emitted once the sends of
\* ProcessingComplete have returned (lines 165-177)
validation_required ==
    /\ run.pc = "validation"
    /\ emitted' = Emit("validation_required")
    /\ run' = [run EXCEPT !.pc = "ended"]
    /\ UNCHANGED <<processing_status, managerVars, analyzerVars, deviceVars,
                   kernelVars>>

\* The except block (lines 181-195): ProcessingFailed is handed to the
\* manager, whose sends the run then awaits
except_block ==
    /\ run.pc = "handler"
    /\ emitted' = Emit("processing_failed")
    /\ run' = [run EXCEPT !.pc = "marking"]
    /\ UNCHANGED <<processing_status, managerVars, analyzerVars, deviceVars,
                   kernelVars>>

\* How the except block's session calls can end (lines 198-204).  The block
\* does not roll back: after a failed select, flush or commit its execute
\* raises.
handler_outcomes(needs_rollback) ==
    IF needs_rollback THEN {"execute_raises"}
    ELSE {"marked", "absent", "execute_raises", "commit_raises"}

\* The except block (lines 197-204): the image is selected again and its
\* status "failed" committed.  An exception raised here leaves run_analysis.
mark_failed ==
    /\ run.pc = "marking"
    /\ \E ending \in handler_outcomes(run.needs_rollback) :
          /\ processing_status' = IF ending = "marked" THEN "failed"
                                  ELSE processing_status
          /\ run' = [run EXCEPT !.pc = "ended",
                                !.image = (ending # "absent"),
                                !.escaped = ending \in {"execute_raises",
                                                        "commit_raises"}]
    /\ UNCHANGED <<emitted, managerVars, analyzerVars, deviceVars, kernelVars>>

NextRun ==
    \/ analyze_image_call
    \/ run_analysis_start
    \/ progress_callback_call
    \/ analyze_raises
    \/ analyze_returns
    \/ save_result
    \/ validation_required
    \/ except_block
    \/ mark_failed

SpecRun == InitDevice /\ [][NextRun]_vars

Emitted(event_type) ==
    Cardinality({i \in DOMAIN emitted : emitted[i].event_type = event_type})

\* C29: for every run_analysis on an existing image, ProcessingStarted is
\* emitted before any other event of that run, exactly one of
\* ProcessingComplete and ProcessingFailed is emitted, and when the run ends
\* the image's processing_status is "completed" if ProcessingComplete was
\* emitted and "failed" otherwise; it is never left at "processing".
C29_RunEndsCompletedOrFailed ==
    /\ run.image /\ emitted # <<>> => emitted[1].event_type = "processing_started"
    /\ run.image /\ run.pc = "ended" =>
          /\ Emitted("processing_complete") + Emitted("processing_failed") = 1
          /\ processing_status = IF Emitted("processing_complete") = 1
                                 THEN "completed" ELSE "failed"

====
